---- MODULE Spec2Model ----
(***************************************************************************)
(* Supply chain cost allocation engine (src/src/index.js).                 *)
(*                                                                         *)
(* The module models the computation core: the generic directed graph      *)
(* (cycle detection, Kahn topological sort, bounded all-paths search),     *)
(* the BOM processor (validation, explosion order, memoized explosion,     *)
(* flattening), the rule engine (execution order, parallel groups), the    *)
(* cost state (cost records, dependency map, dirty set) and the cost       *)
(* calculator (base costs, rules, transfer pricing, incremental            *)
(* recalculation, what-if scenarios, royalty convergence).                 *)
(*                                                                         *)
(* Every operation returns through the variable ret, which holds the       *)
(* operation name, its arguments and either the returned value or the      *)
(* fact that it threw.                                                     *)
(***************************************************************************)
EXTENDS Integers, Sequences, FiniteSets, TLC

VARIABLES
  graph,            \* a stand-alone Graph object
  billOfMaterials,  \* the billOfMaterials array handed to the constructors
  bomProcessor,     \* the BOMProcessor object, once constructed
  expansions,       \* per product, how often explodeBOM ran its component loop
  allocationRules,  \* the allocationRules array handed to the constructors
  ruleEngine,       \* the RuleEngine object, once constructed
  calculator,       \* the CostCalculator object, once constructed
  costState,        \* a stand-alone CostState object
  config,           \* the rest of the configuration handed to CostCalculator
  calls,            \* how many method calls were made on the CostCalculator
  ret               \* the last call and what it returned

vars == <<graph, billOfMaterials, bomProcessor, expansions, allocationRules,
          ruleEngine, calculator, costState, config, calls, ret>>

(***************************************************************************)
(* Bounds and input universes                                              *)
(***************************************************************************)
\* node identifiers handed to a stand-alone Graph
GraphNodes == {"A", "B", "C"}
\* largest number of addEdge calls on a stand-alone Graph
MaxEdges == 3
\* largest maxDepth argument tried on findAllPaths
MaxDepthArg == 3

\* product and item identifiers of a bill of materials
ItemIds == {"A", "B", "C", "D"}
\* the productIds of the BOM entries, in the order the entries are listed
\* (identifiers are interchangeable, so entries are listed alphabetically)
ProductOrder == <<"A", "B", "C">>
\* largest number of components in a bill of materials, all entries together
MaxComponents == 3
\* the same three for the bills of materials whose quantities and scrap
\* rates vary
QtyItemIds == {"A", "B", "C"}
QtyProductOrder == <<"A", "B">>
MaxQtyComponents == 3
\* multiplier arguments tried on getFlattenedMaterials (1 is the default)
Multipliers == {1, 2}

\* transfer pricing: the one product, the largest number of routes and of
\* method calls
TransferProductOrder == <<"A">>
MaxRoutes == 3
MaxTransferCalls == 1

\* keys handed to a stand-alone CostState
StateKeys == {"A", "B", "C"}
\* largest number of (source, dependent) pairs registered on it
MaxDependencyPairs == 3

\* incremental recalculation: the entries of the bill of materials, the
\* items a component names, the largest number of components and of calls
IncrProductOrder == <<"A", "B">>
IncrItemIds == {"A", "R"}
MaxIncrComponents == 2
MaxIncrCalls == 4

\* royalty resolution: the one product, the largest number of routes and of
\* method calls
RoyaltyProductOrder == <<"A">>
MaxRoyaltyRoutes == 2
MaxRoyaltyCalls == 2

\* the phases of calculate(): the entries of the bill of materials, the
\* items a component names, the largest number of components and of calls
PhaseProductOrder == <<"A", "B">>
PhaseItemIds == {"A", "B", "R"}
MaxPhaseComponents == 2
MaxPhaseCalls == 1

\* the hops of a transfer path: the one product, the largest number of
\* routes and of method calls
HopProductOrder == <<"A">>
MaxHopRoutes == 2
MaxHopCalls == 1

\* what-if analysis between updateCost and recalculateIncremental: the
\* largest number of components and of method calls
MaxDirtyComponents == 1
MaxDirtyCalls == 4

\* data gaps: the entries of the bill of materials, the items a component
\* names, the largest number of components and of method calls
GapProductOrder == <<"A", "B">>
GapItemIds == {"A"}
MaxGapComponents == 1
MaxGapCalls == 1

\* cost records under rules: the one product and the largest number of
\* method calls
CostProductOrder == <<"A">>
MaxCostRoutes == 1
MaxCostCalls == 3

\* what-if analysis: the largest number of components and of method calls
MaxWhatIfComponents == 1
MaxWhatIfCalls == 2

\* rule identifiers; the ids of the rules of an allocationRules array, in
\* the order the rules are listed
RuleIds == {"R1", "R2", "R3", "R4"}
RuleOrder == <<"R1", "R2", "R3", "R4">>
\* largest number of dependencies in a rule set, all rules together
MaxDependencies == 4

\* the same bounds for the configurations a CostCalculator is built from
CalcItemIds == {"A", "B", "C"}
CalcProductOrder == <<"A", "B">>
MaxCalcComponents == 2
CalcRuleIds == {"R1", "R2", "R3"}
CalcRuleOrder == <<"R1", "R2">>
MaxCalcDependencies == 2

\* addEdge(from, to, metadata = {}) : the default metadata
NoMeta == "none"

(***************************************************************************)
(* Sequence helpers (Array.prototype)                                      *)
(***************************************************************************)
Range(s) == {s[i] : i \in DOMAIN s}

\* Array.indexOf, 1-based; 0 when absent
indexOf(s, x) ==
  IF \E i \in DOMAIN s : s[i] = x
  THEN CHOOSE i \in DOMAIN s : s[i] = x /\ \A j \in 1..(i - 1) : s[j] # x
  ELSE 0

\* Array.reverse
reverse(s) == [i \in 1..Len(s) |-> s[Len(s) + 1 - i]]

(***************************************************************************)
(* Maps (JavaScript Map): a function whose domain is the set of keys       *)
(***************************************************************************)
EmptyMap == [k \in {} |-> k]

mapSet(m, k, v) == [x \in DOMAIN m \cup {k} |-> IF x = k THEN v ELSE m[x]]

mapHas(m, k) == k \in DOMAIN m

(***************************************************************************)
(* class Graph                                                             *)
(***************************************************************************)
\* new Graph(): an empty adjacencyList Map.  nodes is the Map's key order,
\* adj[n] the array stored for key n
NewGraph == [nodes |-> <<>>, adj |-> EmptyMap]

hasNode(g, node) == node \in Range(g.nodes)

addNode(g, node) ==
  IF hasNode(g, node) THEN g
  ELSE [nodes |-> Append(g.nodes, node), adj |-> mapSet(g.adj, node, <<>>)]

addEdge(g, from, to, metadata) ==
  LET g2 == addNode(addNode(g, from), to)
  IN [g2 EXCEPT !.adj[from] = Append(@, [node |-> to, meta |-> metadata])]

\* adjacencyList.get(node) || []
getNeighbors(g, node) == IF mapHas(g.adj, node) THEN g.adj[node] ELSE <<>>

getNodes(g) == g.nodes

\* ---- detectCycles ------------------------------------------------------
WHITE == 0
GRAY == 1
BLACK == 2

RECURSIVE dfsCycle(_, _, _, _)
RECURSIVE dfsCycleNeighbors(_, _, _, _, _)

\* the inner function dfs(node, path) of detectCycles; st carries the
\* colour map and the cycles found so far, path is the path before the push
dfsCycle(g, node, path, st) ==
  LET st1 == [st EXCEPT !.color[node] = GRAY]
      st2 == dfsCycleNeighbors(g, node, 1, Append(path, node), st1)
  IN [st2 EXCEPT !.color[node] = BLACK]

\* the for loop over getNeighbors(node), from its i-th element on
dfsCycleNeighbors(g, node, i, path, st) ==
  IF i > Len(getNeighbors(g, node)) THEN st
  ELSE
    LET neighbor == getNeighbors(g, node)[i].node
        st1 ==
          IF st.color[neighbor] = GRAY
          THEN LET cycleStart == indexOf(path, neighbor)
               IN [st EXCEPT !.cycles =
                     Append(@, Append(SubSeq(path, cycleStart, Len(path)), neighbor))]
          ELSE IF st.color[neighbor] = WHITE
          THEN dfsCycle(g, neighbor, path, st)
          ELSE st
    IN dfsCycleNeighbors(g, node, i + 1, path, st1)

RECURSIVE detectCyclesFrom(_, _, _)
\* the outer loop of detectCycles over getNodes(), from its i-th node on
detectCyclesFrom(g, i, st) ==
  IF i > Len(getNodes(g)) THEN st
  ELSE
    LET node == getNodes(g)[i]
    IN detectCyclesFrom(g, i + 1,
         IF st.color[node] = WHITE THEN dfsCycle(g, node, <<>>, st) ELSE st)

\* a detectCycles that starts the traversal at the first node only
detectCyclesFirstRootOnly(g) ==
  IF Len(getNodes(g)) = 0 THEN <<>>
  ELSE dfsCycle(g, getNodes(g)[1], <<>>,
                [color |-> [n \in Range(getNodes(g)) |-> WHITE], cycles |-> <<>>]).cycles

detectCycles(g) ==
  detectCyclesFrom(g, 1, [color |-> [n \in Range(getNodes(g)) |-> WHITE], cycles |-> <<>>]).cycles

\* ---- topologicalSort ---------------------------------------------------
RECURSIVE countInDegree(_, _, _, _)
\* the nested loops that count one in-degree per edge: node index i,
\* neighbour index j
countInDegree(g, i, j, inDegree) ==
  IF i > Len(getNodes(g)) THEN inDegree
  ELSE IF j > Len(getNeighbors(g, getNodes(g)[i]))
  THEN countInDegree(g, i + 1, 1, inDegree)
  ELSE
    LET neighbor == getNeighbors(g, getNodes(g)[i])[j].node
    IN countInDegree(g, i, j + 1, [inDegree EXCEPT ![neighbor] = @ + 1])

\* the queue seeded with the zero in-degree nodes, in Map order
zeroInDegree(g, inDegree) ==
  SelectSeq(getNodes(g), LAMBDA n : inDegree[n] = 0)

RECURSIVE relaxNeighbors(_, _, _, _)
\* the for loop of the while body: decrement each neighbour, enqueue at zero
relaxNeighbors(g, node, i, st) ==
  IF i > Len(getNeighbors(g, node)) THEN st
  ELSE
    LET neighbor == getNeighbors(g, node)[i].node
        d == st.inDegree[neighbor] - 1
    IN relaxNeighbors(g, node, i + 1,
         [inDegree |-> [st.inDegree EXCEPT ![neighbor] = d],
          queue |-> IF d = 0 THEN Append(st.queue, neighbor) ELSE st.queue])

RECURSIVE kahnLoopStack(_, _, _)
\* a loop that takes the node pushed last (queue.pop() for queue.shift())
kahnLoopStack(g, st, result) ==
  IF Len(st.queue) = 0 THEN result
  ELSE
    LET node == st.queue[Len(st.queue)]
        st1 == relaxNeighbors(g, node, 1,
                 [inDegree |-> st.inDegree,
                  queue |-> SubSeq(st.queue, 1, Len(st.queue) - 1)])
    IN kahnLoopStack(g, st1, Append(result, node))

RECURSIVE kahnLoop(_, _, _)
\* while (queue.length > 0)
kahnLoop(g, st, result) ==
  IF Len(st.queue) = 0 THEN result
  ELSE
    LET node == Head(st.queue)
        st1 == relaxNeighbors(g, node, 1,
                 [inDegree |-> st.inDegree, queue |-> Tail(st.queue)])
    IN kahnLoop(g, st1, Append(result, node))

kahnResult(g) ==
  LET inDegree == countInDegree(g, 1, 1, [n \in Range(getNodes(g)) |-> 0])
  IN kahnLoop(g, [inDegree |-> inDegree, queue |-> zeroInDegree(g, inDegree)], <<>>)

\* the outcome of a call: it threw, or it returned v
Threw(msg) == [threw |-> TRUE, error |-> msg]
Returned(v) == [threw |-> FALSE, val |-> v]

\* const v = value; ... : the value of an expression, computed once, under
\* the name the operator Op gives it
bind(v, Op(_)) == Op(v)

\* an object variable before its constructor ran, after its constructor
\* threw (no object exists), and the test that the object exists
NoObject == [state |-> "none"]
ThrewObject == [state |-> "threw"]
IsObject(o) == o.state = "ok"

\* a topologicalSort without the final length check
topologicalSortNoLengthCheck(g) == Returned(kahnResult(g))

topologicalSort(g) ==
  LET result == kahnResult(g)
  IN IF Len(result) # Len(getNodes(g))
     THEN Threw("Cycle detected in dependency graph - topological sort impossible")
     ELSE Returned(result)

\* ---- findAllPaths ------------------------------------------------------
NullEdge == [node |-> "null", meta |-> NoMeta]

RECURSIVE dfsPath(_, _, _, _, _, _, _)
RECURSIVE dfsPathNeighbors(_, _, _, _, _, _, _, _)

\* the inner function dfs(current, path, visited) of findAllPaths; paths is
\* the result array so far
dfsPath(g, end, maxDepth, current, path, visited, paths) ==
  IF Len(path) > maxDepth THEN paths
  ELSE IF current = end THEN Append(paths, path)
  ELSE dfsPathNeighbors(g, end, maxDepth, current, 1, path, visited, paths)

dfsPathNeighbors(g, end, maxDepth, current, i, path, visited, paths) ==
  IF i > Len(getNeighbors(g, current)) THEN paths
  ELSE
    LET edge == getNeighbors(g, current)[i]
        paths1 ==
          IF edge.node \notin visited
          THEN dfsPath(g, end, maxDepth, edge.node,
                       Append(path, [node |-> edge.node, edge |-> edge]),
                       visited \cup {edge.node}, paths)
          ELSE paths
    IN dfsPathNeighbors(g, end, maxDepth, current, i + 1, path, visited, paths1)

findAllPaths(g, start, end, maxDepth) ==
  dfsPath(g, end, maxDepth, start, <<[node |-> start, edge |-> NullEdge]>>,
          {start}, <<>>)

(***************************************************************************)
(* Numbers                                                                 *)
(*                                                                         *)
(* A JavaScript number is the exact fraction n/d in lowest terms with      *)
(* d > 0.  Division by zero gives what it gives in JavaScript: n/0 is      *)
(* Infinity (n = 1), -Infinity (n = -1) or NaN (n = 0).  Rounding of       *)
(* floating point is not modelled.                                         *)
(***************************************************************************)
RECURSIVE gcd(_, _)
gcd(a, b) == IF b = 0 THEN a ELSE gcd(b, a % b)

abs(x) == IF x < 0 THEN -x ELSE x

sgn(x) == IF x < 0 THEN -1 ELSE IF x = 0 THEN 0 ELSE 1

Num(n, d) ==
  IF d = 0 THEN [n |-> sgn(n), d |-> 0]
  ELSE LET g == gcd(abs(n), abs(d))
       IN [n |-> sgn(n) * sgn(d) * (abs(n) \div g), d |-> abs(d) \div g]

Zero == Num(0, 1)
One == Num(1, 1)
Infinity == Num(1, 0)
NaN == Num(0, 0)
Undefined == [undefined |-> TRUE]

\* x / gcd(x, y), the common factor taken out before a product is formed
\* (integers have 32 bits)
cancel(x, y) == IF x = 0 /\ y = 0 THEN 0 ELSE x \div gcd(abs(x), abs(y))

\* a * b
mul(a, b) ==
  Num(cancel(a.n, b.d) * cancel(b.n, a.d), cancel(a.d, b.n) * cancel(b.d, a.n))

\* a / b
div(a, b) ==
  Num(cancel(a.n, b.n) * cancel(b.d, a.d), cancel(a.d, b.d) * cancel(b.n, a.n))

\* a + b
add(a, b) ==
  IF a.d = 0 /\ b.d = 0 THEN (IF a = b THEN a ELSE NaN)
  ELSE IF a.d = 0 THEN a
  ELSE IF b.d = 0 THEN b
  ELSE Num(a.n * cancel(b.d, a.d) + b.n * cancel(a.d, b.d),
           a.d * cancel(b.d, a.d))

\* a - b
sub(a, b) == add(a, [n |-> -b.n, d |-> b.d])

\* x || 0 for a number or undefined
orZero(x) == IF x = Undefined \/ x = Zero \/ x = NaN THEN Zero ELSE x

\* a < b for finite a, b
less(a, b) == a.n * cancel(b.d, a.d) < b.n * cancel(a.d, b.d)

\* a < b for any two numbers: false when either is NaN
lt(a, b) ==
  IF a = NaN \/ b = NaN THEN FALSE
  ELSE IF a.d = 0 /\ b.d = 0 THEN a.n < b.n
  ELSE IF a.d = 0 THEN a.n < 0
  ELSE IF b.d = 0 THEN b.n > 0
  ELSE less(a, b)

\* a > b
gt(a, b) == lt(b, a)

\* a <= b: false when either is NaN
le(a, b) == a # NaN /\ b # NaN /\ ~lt(b, a)

\* Math.abs
absNum(a) == [n |-> abs(a.n), d |-> a.d]

\* a value used as a number: undefined is NaN
num(x) == IF x = Undefined THEN NaN ELSE x

\* a value in a condition: undefined, 0 and NaN are falsy
truthy(x) == x # Undefined /\ x # Zero /\ x # NaN

\* a || b
orElse(a, b) == IF truthy(a) THEN a ELSE b

(***************************************************************************)
(* class BOMProcessor                                                      *)
(***************************************************************************)
\* the edge metadata the constructor attaches to a component
componentMeta(component) ==
  [quantity |-> component.quantity, scrapRate |-> orZero(component.scrapRate)]

RECURSIVE indexComponents(_, _, _)
\* the inner loop of the constructor: one edge per component of item
indexComponents(g, item, i) ==
  IF i > Len(item.components) THEN g
  ELSE indexComponents(
         addEdge(g, item.productId, item.components[i].itemId,
                 componentMeta(item.components[i])),
         item, i + 1)

RECURSIVE indexBOM(_, _, _)
\* the outer loop of the constructor over billOfMaterials; st holds the
\* Map bom and the Graph bomGraph
indexBOM(items, i, st) ==
  IF i > Len(items) THEN st
  ELSE
    LET item == items[i]
    IN indexBOM(items, i + 1,
         [bom |-> mapSet(st.bom, item.productId, item),
          products |-> IF mapHas(st.bom, item.productId) THEN st.products
                       ELSE Append(st.products, item.productId),
          bomGraph |-> indexComponents(addNode(st.bomGraph, item.productId),
                                       item, 1)])

\* a constructor that indexes the BOM and skips the cycle validation
newBOMProcessorNoValidation(items) ==
  LET st == indexBOM(items, 1, [bom |-> EmptyMap, products |-> <<>>,
                                bomGraph |-> NewGraph])
  IN Returned([state |-> "ok", bom |-> st.bom, products |-> st.products,
               bomGraph |-> st.bomGraph,
               explosionCache |-> EmptyMap])

\* new BOMProcessor(billOfMaterials, auditTrail)
newBOMProcessor(items) ==
  LET st == indexBOM(items, 1, [bom |-> EmptyMap, products |-> <<>>,
                                bomGraph |-> NewGraph])
      cycles == detectCycles(st.bomGraph)
  IN IF Len(cycles) > 0
     THEN Threw("BOM contains cycles")
     ELSE Returned([state |-> "ok", bom |-> st.bom, products |-> st.products,
               bomGraph |-> st.bomGraph,
                    explosionCache |-> EmptyMap])

\* an explosion order that is not reversed
getExplosionOrderNotReversed(bp) == topologicalSort(bp.bomGraph)

\* getExplosionOrder(): topologicalSort().reverse()
getExplosionOrder(bp) ==
  LET sorted == topologicalSort(bp.bomGraph)
  IN IF sorted.threw THEN sorted ELSE Returned(reverse(sorted.val))

\* the result object of explodeBOM for a raw material
rawMaterial(productId, depth) ==
  [productId |-> productId, isRawMaterial |-> TRUE, components |-> <<>>,
   depth |-> depth]

\* quantity / (1 - (scrapRate || 0))
effectiveQuantity(component) ==
  div(component.quantity, sub(One, orZero(component.scrapRate)))

RECURSIVE explodeBOM(_, _, _, _, _)
RECURSIVE explodeComponents(_, _, _, _, _, _, _)

\* an explodeBOM that never stores an assembly in the explosionCache
explodeBOMNoCacheSet(bom, st, productId, depth, visited) ==
  IF mapHas(st.explosionCache, productId)
  THEN [out |-> Returned(st.explosionCache[productId]), st |-> st]
  ELSE IF productId \in visited
  THEN [out |-> Threw("Circular reference detected"), st |-> st]
  ELSE IF ~mapHas(bom, productId) \/ Len(bom[productId].components) = 0
  THEN [out |-> Returned(rawMaterial(productId, depth)), st |-> st]
  ELSE
    LET r == explodeComponents(bom,
               [st EXCEPT !.expansions[productId] = @ + 1],
               productId, depth, visited \cup {productId}, 1, <<>>)
    IN IF r.out.threw THEN r
       ELSE [out |-> Returned([productId |-> productId, isRawMaterial |-> FALSE,
                               components |-> r.out.val, depth |-> depth]),
             st |-> r.st]

\* explodeBOM(productId, depth, visited).  st holds the explosionCache and the
\* count of component-loop runs per product; the result holds what the call
\* returned (or that it threw) and st afterwards
explodeBOM(bom, st, productId, depth, visited) ==
  IF mapHas(st.explosionCache, productId)
  THEN [out |-> Returned(st.explosionCache[productId]), st |-> st]
  ELSE IF productId \in visited
  THEN [out |-> Threw("Circular reference detected"), st |-> st]
  ELSE IF ~mapHas(bom, productId)
  THEN [out |-> Returned(rawMaterial(productId, depth)), st |-> st]
  ELSE IF Len(bom[productId].components) = 0
  THEN [out |-> Returned(rawMaterial(productId, depth)),
        st |-> [st EXCEPT !.explosionCache =
                  mapSet(@, productId, rawMaterial(productId, depth))]]
  ELSE
    LET r == explodeComponents(bom,
               [st EXCEPT !.expansions[productId] = @ + 1],
               productId, depth, visited \cup {productId}, 1, <<>>)
    IN IF r.out.threw THEN r
       ELSE
         LET result == [productId |-> productId, isRawMaterial |-> FALSE,
                        components |-> r.out.val, depth |-> depth]
         IN [out |-> Returned(result),
             st |-> [r.st EXCEPT !.explosionCache = mapSet(@, productId, result)]]

\* the for loop of explodeBOM over product.components, from the i-th on
explodeComponents(bom, st, productId, depth, visited, i, explodedComponents) ==
  IF i > Len(bom[productId].components)
  THEN [out |-> Returned(explodedComponents), st |-> st]
  ELSE
    LET component == bom[productId].components[i]
        child == explodeBOM(bom, st, component.itemId, depth + 1, visited)
    IN IF child.out.threw THEN child
       ELSE explodeComponents(bom, child.st, productId, depth, visited, i + 1,
              Append(explodedComponents,
                [itemId |-> component.itemId,
                 quantity |-> component.quantity,
                 scrapRate |-> component.scrapRate,
                 explosion |-> child.out.val,
                 effectiveQuantity |-> effectiveQuantity(component)]))

RECURSIVE traverse(_, _, _, _)
RECURSIVE traverseComponents(_, _, _, _, _)

\* a traverse that stores qty for a raw material instead of adding it
traverseOverwriting(bom, itemId, qty, materials) ==
  IF ~mapHas(bom, itemId) \/ Len(bom[itemId].components) = 0
  THEN mapSet(materials, itemId, qty)
  ELSE traverseComponents(bom, itemId, 1, qty, materials)

\* the inner function traverse(itemId, qty) of getFlattenedMaterials
traverse(bom, itemId, qty, materials) ==
  IF ~mapHas(bom, itemId) \/ Len(bom[itemId].components) = 0
  THEN mapSet(materials, itemId,
              add(IF mapHas(materials, itemId) THEN orZero(materials[itemId])
                  ELSE Zero, qty))
  ELSE traverseComponents(bom, itemId, 1, qty, materials)

traverseComponents(bom, itemId, i, qty, materials) ==
  IF i > Len(bom[itemId].components) THEN materials
  ELSE
    LET component == bom[itemId].components[i]
        effectiveQty == div(mul(qty, component.quantity),
                            sub(One, orZero(component.scrapRate)))
    IN traverseComponents(bom, itemId, i + 1, qty,
         traverse(bom, component.itemId, effectiveQty, materials))

\* getFlattenedMaterials(productId, multiplier = 1)
getFlattenedMaterials(bp, productId, multiplier) ==
  traverse(bp.bom, productId, multiplier, EmptyMap)

(***************************************************************************)
(* class RuleEngine                                                        *)
(***************************************************************************)
RECURSIVE indexRules(_, _, _)
\* the first loop of the constructor: rules.set and addNode per rule
indexRules(rules, i, st) ==
  IF i > Len(rules) THEN st
  ELSE indexRules(rules, i + 1,
         [rules |-> mapSet(st.rules, rules[i].id, rules[i]),
          ruleGraph |-> addNode(st.ruleGraph, rules[i].id)])

RECURSIVE indexDependencies(_, _, _, _)
\* a second loop that adds the edge rule -> dependency
indexDependenciesReversed(rules, i, j, g) ==
  IF i > Len(rules) THEN g
  ELSE IF j > Len(rules[i].dependencies)
  THEN indexDependencies(rules, i + 1, 1, g)
  ELSE indexDependencies(rules, i, j + 1,
         addEdge(g, rules[i].id, rules[i].dependencies[j], NoMeta))

\* the second loop of the constructor: the edge dependency -> rule for the
\* j-th dependency of the i-th rule
indexDependencies(rules, i, j, g) ==
  IF i > Len(rules) THEN g
  ELSE IF j > Len(rules[i].dependencies)
  THEN indexDependencies(rules, i + 1, 1, g)
  ELSE indexDependencies(rules, i, j + 1,
         addEdge(g, rules[i].dependencies[j], rules[i].id, NoMeta))

\* a constructor that skips the cycle validation and keeps whatever Kahn's
\* algorithm produced as the execution order
newRuleEngineNoValidation(rules) ==
  LET st == indexRules(rules, 1, [rules |-> EmptyMap, ruleGraph |-> NewGraph])
      g == indexDependencies(rules, 1, 1, st.ruleGraph)
  IN Returned([state |-> "ok", rules |-> st.rules, ruleGraph |-> g,
               executionOrder |-> kahnResult(g)])

\* new RuleEngine(allocationRules, auditTrail)
newRuleEngine(rules) ==
  LET st == indexRules(rules, 1, [rules |-> EmptyMap, ruleGraph |-> NewGraph])
      g == indexDependencies(rules, 1, 1, st.ruleGraph)
      cycles == detectCycles(g)
      sorted == topologicalSort(g)
  IN IF Len(cycles) > 0 THEN Threw("Rule dependencies contain cycles")
     ELSE IF sorted.threw THEN sorted
     ELSE Returned([state |-> "ok", rules |-> st.rules, ruleGraph |-> g,
                    executionOrder |-> sorted.val])

\* an order of the rules in which dependants come first
getExecutionOrderReversed(re) == reverse(re.executionOrder)

getExecutionOrder(re) == re.executionOrder

RECURSIVE scanWave(_, _, _, _)
RECURSIVE scanWaveFirstOnly(_, _, _, _)
\* a scan that ends at the first rule it finds ready, so that a wave holds
\* one rule
scanWaveFirstOnly(re, executed, i, group) ==
  IF i > Len(re.executionOrder) \/ Len(group) > 0 THEN Returned(group)
  ELSE
    LET ruleId == re.executionOrder[i]
    IN IF ruleId \in executed THEN scanWaveFirstOnly(re, executed, i + 1, group)
       ELSE IF ~mapHas(re.rules, ruleId)
       THEN Threw("TypeError: Cannot read properties of undefined")
       ELSE
         LET depsReady == \A d \in Range(re.rules[ruleId].dependencies) :
                            d \in executed
         IN scanWaveFirstOnly(re, executed, i + 1,
              IF depsReady THEN Append(group, ruleId) ELSE group)

\* a scan that counts the rules already put in the current group as executed
scanWaveCountingGroup(re, executed, i, group) ==
  IF i > Len(re.executionOrder) THEN Returned(group)
  ELSE
    LET ruleId == re.executionOrder[i]
    IN IF ruleId \in executed THEN scanWave(re, executed, i + 1, group)
       ELSE IF ~mapHas(re.rules, ruleId)
       THEN Threw("TypeError: Cannot read properties of undefined")
       ELSE
         LET depsReady == \A d \in Range(re.rules[ruleId].dependencies) :
                            d \in executed \cup Range(group)
         IN scanWave(re, executed, i + 1,
              IF depsReady THEN Append(group, ruleId) ELSE group)

\* the for loop of getParallelGroups over executionOrder, from the i-th id
\* on: the group of the rules whose dependencies are all executed.  Reading
\* .dependencies of an id that is not a rule throws a TypeError
scanWave(re, executed, i, group) ==
  IF i > Len(re.executionOrder) THEN Returned(group)
  ELSE
    LET ruleId == re.executionOrder[i]
    IN IF ruleId \in executed THEN scanWave(re, executed, i + 1, group)
       ELSE IF ~mapHas(re.rules, ruleId)
       THEN Threw("TypeError: Cannot read properties of undefined")
       ELSE
         LET depsReady == \A d \in Range(re.rules[ruleId].dependencies) :
                            d \in executed
         IN scanWave(re, executed, i + 1,
              IF depsReady THEN Append(group, ruleId) ELSE group)

RECURSIVE parallelGroupsLoop(_, _, _)
\* while (executed.size < this.rules.size)
parallelGroupsLoop(re, executed, groups) ==
  IF ~(Cardinality(executed) < Cardinality(DOMAIN re.rules))
  THEN Returned(groups)
  ELSE
    LET group == scanWave(re, executed, 1, <<>>)
    IN IF group.threw THEN group
       ELSE IF Len(group.val) = 0 THEN Returned(groups)
       ELSE parallelGroupsLoop(re, executed \cup Range(group.val),
                               Append(groups, group.val))

getParallelGroups(re) == parallelGroupsLoop(re, {}, <<>>)

(***************************************************************************)
(* class CostState                                                         *)
(*                                                                         *)
(* costs, ruleOutputs and dependencies are Maps; a Set (the dirty set, the *)
(* dependents of a key) is the sequence of its elements in insertion       *)
(* order.  Keys are the strings productId:entityId:period; identifiers     *)
(* hold no colon, and a key is modelled as the tuple of its three parts.   *)
(***************************************************************************)
\* new CostState()
NewCostState ==
  [state |-> "ok", costs |-> EmptyMap, ruleOutputs |-> EmptyMap,
   dependencies |-> EmptyMap, dirty |-> <<>>]

\* Set.add
setAdd(s, x) == IF x \in Range(s) THEN s ELSE Append(s, x)

getCostKey(productId, entityId, period) == <<productId, entityId, period>>

getRuleKey(ruleId, productId, entityId, period) ==
  <<ruleId, productId, entityId, period>>

\* obj[f], undefined when obj has no property f
field(obj, f) == IF f \in DOMAIN obj THEN obj[f] ELSE Undefined

\* obj[f] === v for a string v
fieldIs(obj, f, v) == f \in DOMAIN obj /\ obj[f] = v

\* { ...obj, f: v }
withField(obj, f, v) ==
  [x \in DOMAIN obj \cup {f} |-> IF x = f THEN v ELSE obj[x]]

\* costs.set(key, { ...breakdown, _key: key })
setCost(cs, productId, entityId, period, breakdown) ==
  LET key == getCostKey(productId, entityId, period)
  IN [cs EXCEPT !.costs = mapSet(@, key, withField(breakdown, "_key", key))]

\* costs.get(key): the record, or undefined
getCost(cs, productId, entityId, period) ==
  LET key == getCostKey(productId, entityId, period)
  IN IF mapHas(cs.costs, key) THEN cs.costs[key] ELSE Undefined

setRuleOutput(cs, ruleId, productId, entityId, period, output) ==
  [cs EXCEPT !.ruleOutputs =
     mapSet(@, getRuleKey(ruleId, productId, entityId, period), output)]

getRuleOutput(cs, ruleId, productId, entityId, period) ==
  LET key == getRuleKey(ruleId, productId, entityId, period)
  IN IF mapHas(cs.ruleOutputs, key) THEN cs.ruleOutputs[key] ELSE Undefined

addDependency(cs, sourceKey, dependentKey) ==
  LET deps == IF mapHas(cs.dependencies, sourceKey)
              THEN cs.dependencies[sourceKey] ELSE <<>>
  IN [cs EXCEPT !.dependencies = mapSet(@, sourceKey, setAdd(deps, dependentKey))]

\* the keys the dependency map mentions
DependencyKeys(cs) ==
  DOMAIN cs.dependencies
    \cup UNION {Range(cs.dependencies[k]) : k \in DOMAIN cs.dependencies}

\* markDirty calls itself once per dependent and has no visited set.  A
\* chain of nested calls longer than the number of keys has met a key twice,
\* and then it never ends: the call stack overflows (RangeError).  dirty
\* keeps what was added before the exception
StackLimit(cs) == Cardinality(DependencyKeys(cs)) + 1

RECURSIVE markDirtyAt(_, _, _)
RECURSIVE markDirtyDependents(_, _, _, _)

\* markDirty(key) as the depth-th nested call
markDirtyAt(cs, key, depth) ==
  IF depth > StackLimit(cs)
  THEN [cs |-> cs, threw |-> TRUE]
  ELSE
    LET cs1 == [cs EXCEPT !.dirty = setAdd(@, key)]
    IN IF mapHas(cs.dependencies, key)
       THEN markDirtyDependents(cs1, cs.dependencies[key], 1, depth)
       ELSE [cs |-> cs1, threw |-> FALSE]

\* for (const dependent of dependents) this.markDirty(dependent)
markDirtyDependents(cs, dependents, i, depth) ==
  IF i > Len(dependents) THEN [cs |-> cs, threw |-> FALSE]
  ELSE
    LET r == markDirtyAt(cs, dependents[i], depth + 1)
    IN IF r.threw THEN r
       ELSE markDirtyDependents(r.cs, dependents, i + 1, depth)

\* a markDirty that does not propagate to the dependents
markDirtyKeyOnly(cs, key) ==
  [cs |-> [cs EXCEPT !.dirty = setAdd(@, key)], threw |-> FALSE]

\* costState.markDirty(key): the state after the call and whether it threw
markDirty(cs, key) == markDirtyAt(cs, key, 1)

\* Array.from(this.dirty)
getDirtyKeys(cs) == cs.dirty

clearDirty(cs) == [cs EXCEPT !.dirty = <<>>]

\* clone(): the three Maps are copied, the dirty set is not
clone(cs) ==
  [state |-> "ok", costs |-> cs.costs, ruleOutputs |-> cs.ruleOutputs,
   dependencies |-> cs.dependencies, dirty |-> <<>>]

(***************************************************************************)
(* class CurrencyConverter                                                 *)
(*                                                                         *)
(* exchangeRates is a Map from a period to a Map from the pair             *)
(* (currency, "USD") - the key "CUR/USD" - to a rate.                      *)
(***************************************************************************)
\* the periods the model knows, in chronological (and alphabetical) order
PeriodTable ==
  <<"2023-Q1", "2023-Q2", "2023-Q3", "2023-Q4",
    "2024-Q1", "2024-Q2", "2024-Q3", "2024-Q4">>

\* parseInt(year) * 4 + parseInt(quarter)
periodToNumber(period) == 2023 * 4 + indexOf(PeriodTable, period)

\* the count quarters before period, nearest first
getPriorPeriods(period, count) ==
  [i \in 1..count |-> PeriodTable[indexOf(PeriodTable, period) - i]]

\* Object.keys(this.rates).sort()
sortedPeriods(rates) == SelectSeq(PeriodTable, LAMBDA p : p \in DOMAIN rates)

\* no period (null)
NoPeriod == "null"

RECURSIVE nearestPeriod(_, _, _, _)
\* the reduce over the sorted periods: the first period at the least distance
nearestPeriod(periods, i, nearest, period) ==
  IF i > Len(periods) THEN nearest
  ELSE LET p == periods[i]
       IN nearestPeriod(periods, i + 1,
            IF nearest = NoPeriod THEN p
            ELSE IF abs(periodToNumber(p) - periodToNumber(period))
                      < abs(periodToNumber(nearest) - periodToNumber(period))
                 THEN p ELSE nearest,
            period)

\* the conversion through USD with the rates of one period
convertWith(periodRates, amount, fromCurrency, toCurrency) ==
  LET fromKey == <<fromCurrency, "USD">>
      toKey == <<toCurrency, "USD">>
      fromMissing == fromCurrency # "USD" /\ ~truthy(field(periodRates, fromKey))
      amountInUSD == IF fromCurrency # "USD"
                     THEN mul(amount, periodRates[fromKey]) ELSE amount
  IN IF fromMissing THEN Threw("Missing exchange rate")
     ELSE IF toCurrency = "USD" THEN Returned(amountInUSD)
     ELSE IF ~truthy(field(periodRates, toKey)) THEN Threw("Missing exchange rate")
     ELSE Returned(div(amountInUSD, periodRates[toKey]))

\* currencyConverter.convert(amount, fromCurrency, toCurrency, period)
convert(rates, amount, fromCurrency, toCurrency, period) ==
  IF fromCurrency = toCurrency THEN Returned(amount)
  ELSE IF mapHas(rates, period)
  THEN convertWith(rates[period], amount, fromCurrency, toCurrency)
  ELSE
    LET nearest == nearestPeriod(sortedPeriods(rates), 1, NoPeriod, period)
    IN IF nearest = NoPeriod THEN Threw("No exchange rate found for period")
       ELSE convertWith(rates[nearest], amount, fromCurrency, toCurrency)

(***************************************************************************)
(* class EntityManager                                                     *)
(*                                                                         *)
(* entities is the array the constructor was given (its ids are distinct), *)
(* which is also the order of the entities Map.                            *)
(***************************************************************************)
RECURSIVE addEntityNodes(_, _, _)
addEntityNodes(entities, i, g) ==
  IF i > Len(entities) THEN g
  ELSE addEntityNodes(entities, i + 1, addNode(g, entities[i].id))

RECURSIVE addRouteEdges(_, _, _)
addRouteEdges(transferRoutes, i, g) ==
  IF i > Len(transferRoutes) THEN g
  ELSE addRouteEdges(transferRoutes, i + 1,
         addEdge(g, transferRoutes[i].from, transferRoutes[i].to,
                 [itemTypes |-> transferRoutes[i].itemTypes,
                  markupType |-> transferRoutes[i].markupType,
                  markupValue |-> transferRoutes[i].markupValue]))

\* new EntityManager(entities, transferRoutes): the transferGraph
newTransferGraph(entities, transferRoutes) ==
  addRouteEdges(transferRoutes, 1, addEntityNodes(entities, 1, NewGraph))

\* entities.get(entityId)
getEntity(c, entityId) ==
  IF \E i \in DOMAIN c.entities : c.entities[i].id = entityId
  THEN c.entities[indexOf([i \in DOMAIN c.entities |-> c.entities[i].id],
                          entityId)]
  ELSE Undefined

getAllEntities(c) == c.entities

getManufacturingEntities(c) ==
  SelectSeq(c.entities, LAMBDA e : e.type = "manufacturing")

getDistributionEntities(c) ==
  SelectSeq(c.entities, LAMBDA e : e.type = "distribution")

\* transferGraph.findAllPaths(fromEntity, toEntity) with the default maxDepth
DefaultMaxDepth == 10

findTransferPaths(c, fromEntity, toEntity) ==
  findAllPaths(c.transferGraph, fromEntity, toEntity, DefaultMaxDepth)

\* from && to && from.country !== to.country
isCrossBorder(c, fromEntityId, toEntityId) ==
  LET from == getEntity(c, fromEntityId)
      to == getEntity(c, toEntityId)
  IN from # Undefined /\ to # Undefined /\ from.country # to.country

(***************************************************************************)
(* class CostCalculator                                                    *)
(*                                                                         *)
(* The object c holds the fields of the calculator but the bomProcessor    *)
(* and the ruleEngine, which the operators take as bp and re.  The audit   *)
(* trail is its costContributions Map (the event log with its timestamps   *)
(* is left out).  An exception in flight is the field exc: every step of   *)
(* a method is skipped once exc is set, and what was written before it     *)
(* stays written.                                                          *)
(***************************************************************************)
NoExc == "none"

raise(c, msg) == [c EXCEPT !.exc = msg]

RECURSIVE indexPeriods(_, _, _, _)
\* for (const [period, data] of Object.entries(cost.periods)): the periods
\* of one entry, in the order of PeriodTable
indexPeriods(cost, periods, i, index) ==
  IF i > Len(periods) THEN index
  ELSE indexPeriods(cost, periods, i + 1,
         mapSet(index, <<cost.itemId, cost.entityId, periods[i]>>,
                cost.periods[periods[i]]))

RECURSIVE indexPeriodCosts(_, _, _)
\* indexPeriodCosts(periodCosts): itemId:entityId:period -> { unit, currency }
indexPeriodCosts(periodCosts, i, index) ==
  IF i > Len(periodCosts) THEN index
  ELSE indexPeriodCosts(periodCosts, i + 1,
         indexPeriods(periodCosts[i], sortedPeriods(periodCosts[i].periods),
                      1, index))

\* new CostCalculator(cfg): the BOMProcessor first, then the RuleEngine; an
\* exception of either leaves the constructor
newCostCalculator(cfg) ==
  LET bp == newBOMProcessor(cfg.billOfMaterials)
      re == newRuleEngine(cfg.allocationRules)
  IN IF bp.threw THEN bp
     ELSE IF re.threw THEN re
     ELSE Returned(
            [state |-> "ok", bomProcessor |-> bp.val, ruleEngine |-> re.val,
             costState |-> NewCostState,
             contributions |-> EmptyMap,
             entities |-> cfg.entities,
             transferGraph |-> newTransferGraph(cfg.entities, cfg.transferRoutes),
             exchangeRates |-> cfg.exchangeRates,
             periodCosts |-> indexPeriodCosts(cfg.periodCosts, 1, EmptyMap),
             productionVolumes |-> cfg.productionVolumes,
             costPools |-> cfg.costPools,
             standardCosts |-> cfg.standardCosts,
             transferRoutes |-> cfg.transferRoutes,
             warnings |-> <<>>,
             exc |-> NoExc])

\* the fields of the calculator but its bomProcessor and its ruleEngine,
\* which are the objects of the variables of these names
calculatorFields(c) ==
  [f \in DOMAIN c \ {"bomProcessor", "ruleEngine"} |-> c[f]]

getItemCost(c, itemId, entityId, period) ==
  field(c.periodCosts, <<itemId, entityId, period>>)

\* auditTrail.recordContribution(productId, entityId, ruleId, amount, ...)
recordContribution(c, productId, entityId, ruleId, amount) ==
  LET key == <<productId, entityId>>
      list == IF mapHas(c.contributions, key) THEN c.contributions[key] ELSE <<>>
  IN [c EXCEPT !.contributions =
        mapSet(@, key, Append(list, [ruleId |-> ruleId, amount |-> amount]))]

\* auditTrail.getContributions(productId, entityId)
getContributions(c, productId, entityId) ==
  IF mapHas(c.contributions, <<productId, entityId>>)
  THEN c.contributions[<<productId, entityId>>] ELSE <<>>

\* bomProcessor.getAllProducts(): the keys of the bom Map, in its order
getAllProducts(bp) == bp.products

\* bomProcessor.getProduct(productId)
getProduct(bp, productId) == field(bp.bom, productId)

\* ruleEngine.getRule(ruleId)
getRule(re, ruleId) == field(re.rules, ruleId)

\* ---- calculateBaseCost -------------------------------------------------
RECURSIVE baseCostComponents(_, _, _, _, _, _, _)
\* the loop of calculateBaseCost over the components of an assembly; acc
\* holds directMaterialCost, directLaborCost, componentCosts and the
\* exception of a failed conversion
baseCostComponents(c, components, i, entityId, period, targetCurrency, acc) ==
  IF i > Len(components) \/ acc.exc # NoExc THEN acc
  ELSE
    LET component == components[i]
        quantity == num(field(component, "quantity"))
        isLabor == fieldIs(component, "unit", "hours")
        laborRate == getItemCost(c, component.itemId, entityId, period)
        componentCost == getCost(c.costState, component.itemId, entityId, period)
        unitCost == orElse(orElse(field(componentCost, "totalCost"),
                                  field(componentCost, "directMaterial")), Zero)
        rawCost == getItemCost(c, component.itemId, entityId, period)
    IN bind(div(One, sub(One, orZero(field(component, "scrapRate")))),
            LAMBDA scrapMultiplier :
         baseCostComponents(c, components, i + 1, entityId, period,
           targetCurrency,
           IF isLabor
           THEN IF laborRate = Undefined THEN acc
                ELSE
                  bind(convert(c.exchangeRates,
                               mul(mul(num(field(laborRate, "unit")), quantity),
                                   scrapMultiplier),
                               field(laborRate, "currency"), targetCurrency,
                               period),
                       LAMBDA laborCost :
                    IF laborCost.threw THEN [acc EXCEPT !.exc = laborCost.error]
                    ELSE [acc EXCEPT
                            !.directLabor = add(@, laborCost.val),
                            !.componentCosts =
                               Append(@, [itemId |-> component.itemId,
                                          type |-> "labor",
                                          quantity |-> field(component, "quantity"),
                                          scrapMultiplier |-> scrapMultiplier,
                                          cost |-> laborCost.val])])
           ELSE IF componentCost # Undefined
           THEN bind(mul(mul(unitCost, quantity), scrapMultiplier),
                     LAMBDA totalComponentCost :
                  [acc EXCEPT
                     !.directMaterial = add(@, totalComponentCost),
                     !.componentCosts =
                        Append(@, [itemId |-> component.itemId,
                                   type |-> "material",
                                   quantity |-> field(component, "quantity"),
                                   scrapMultiplier |-> scrapMultiplier,
                                   unitCost |-> unitCost,
                                   cost |-> totalComponentCost])])
           ELSE IF rawCost = Undefined THEN acc
           ELSE
             bind(convert(c.exchangeRates,
                          mul(mul(num(field(rawCost, "unit")), quantity),
                              scrapMultiplier),
                          field(rawCost, "currency"), targetCurrency, period),
                  LAMBDA materialCost :
               IF materialCost.threw
               THEN [acc EXCEPT !.exc = materialCost.error]
               ELSE [acc EXCEPT
                       !.directMaterial = add(@, materialCost.val),
                       !.componentCosts =
                          Append(@, [itemId |-> component.itemId,
                                     type |-> "raw-material",
                                     quantity |-> field(component, "quantity"),
                                     scrapMultiplier |-> scrapMultiplier,
                                     unitCost |-> field(rawCost, "unit"),
                                     cost |-> materialCost.val])])))

\* the breakdown object calculateBaseCost stores
baseBreakdown(directMaterialCost, directLaborCost, componentCosts) ==
  [directMaterial |-> directMaterialCost,
   directLabor |-> directLaborCost,
   scrapAdjustment |-> Zero,
   laborBurden |-> Zero,
   factoryOverhead |-> Zero,
   rndAmortization |-> Zero,
   royalty |-> Zero,
   managementFee |-> Zero,
   interCompanyMarkup |-> Zero,
   customsDuties |-> Zero,
   totalCost |-> add(directMaterialCost, directLaborCost),
   componentBreakdown |-> componentCosts]


\* calculateBaseCost(productId, entityId, period, targetCurrency): the
\* calculator after the call
calculateBaseCost(c, bp, productId, entityId, period, targetCurrency) ==
  LET product == getProduct(bp, productId)
      costData == getItemCost(c, productId, entityId, period)
      start == [directMaterial |-> Zero, directLabor |-> Zero,
                componentCosts |-> <<>>, exc |-> NoExc]
  IN IF c.exc # NoExc \/ product = Undefined THEN c
     ELSE
       bind(IF Len(product.components) = 0
            THEN IF costData = Undefined THEN start
                 ELSE
                   bind(convert(c.exchangeRates, num(field(costData, "unit")),
                                field(costData, "currency"), targetCurrency,
                                period),
                        LAMBDA rawUnit :
                     IF rawUnit.threw THEN [start EXCEPT !.exc = rawUnit.error]
                     ELSE [start EXCEPT !.directMaterial = rawUnit.val])
            ELSE baseCostComponents(c, product.components, 1, entityId, period,
                                    targetCurrency, start),
            LAMBDA acc :
         IF acc.exc # NoExc THEN raise(c, acc.exc)
         ELSE recordContribution(
                [c EXCEPT !.costState =
                   setCost(@, productId, entityId, period,
                           baseBreakdown(acc.directMaterial, acc.directLabor,
                                         acc.componentCosts))],
                productId, entityId, "BASE",
                add(acc.directMaterial, acc.directLabor)))

\* ---- applyRule ---------------------------------------------------------
RECURSIVE baseAmountOf(_, _, _, _)
\* the reduce of percentage-of-base over rule.baseRules
baseAmountOf(baseRules, i, cost, sum) ==
  IF i > Len(baseRules) THEN sum
  ELSE baseAmountOf(baseRules, i + 1, cost,
         IF baseRules[i] = "RULE-002"
         THEN add(add(sum, cost.directMaterial), cost.scrapAdjustment)
         ELSE IF baseRules[i] = "RULE-003"
         THEN add(add(sum, cost.directLabor), cost.laborBurden)
         ELSE sum)

RECURSIVE sumValues(_, _)
\* the sum of the values of a Map of numbers
sumValues(m, ks) ==
  IF ks = {} THEN Zero
  ELSE LET k == CHOOSE x \in ks : TRUE
       IN add(m[k], sumValues(m, ks \ {k}))

RECURSIVE sumEntityVolumes(_, _)
\* the volumes of one period, all entities and products together
sumEntityVolumes(periodVolumes, es) ==
  IF es = {} THEN Zero
  ELSE LET e == CHOOSE x \in es : TRUE
       IN add(sumValues(periodVolumes[e], DOMAIN periodVolumes[e]),
              sumEntityVolumes(periodVolumes, es \ {e}))

RECURSIVE sumPeriodVolumes(_, _, _)
sumPeriodVolumes(c, periods, i) ==
  IF i > Len(periods) THEN Zero
  ELSE add(IF mapHas(c.productionVolumes, periods[i])
           THEN sumEntityVolumes(c.productionVolumes[periods[i]],
                                 DOMAIN c.productionVolumes[periods[i]])
           ELSE Zero,
           sumPeriodVolumes(c, periods, i + 1))

\* getTotalProductionVolume(period, lookbackPeriods = 1)
getTotalProductionVolume(c, period, lookbackPeriods) ==
  LET lookback == IF lookbackPeriods = Undefined THEN 1 ELSE lookbackPeriods
      periods == <<period>> \o getPriorPeriods(period, lookback - 1)
  IN div(sumPeriodVolumes(c, periods, 1), Num(Len(periods), 1))

\* productionVolumes[period]?.[entityId]?.[productId] || 0
getProductVolume(c, productId, entityId, period) ==
  LET byPeriod == field(c.productionVolumes, period)
      byEntity == IF byPeriod = Undefined THEN Undefined
                  ELSE field(byPeriod, entityId)
      volume == IF byEntity = Undefined THEN Undefined
                ELSE field(byEntity, productId)
  IN orZero(volume)

RECURSIVE applyRoutes(_, _, _, _, _, _, _)
\* the loop of the transfer-price branch over the matching routes; st holds
\* the cost record, ruleOutput and the calculator (for its contributions)
applyRoutes(routes, i, fieldName, ruleId, productId, entityId, st) ==
  IF i > Len(routes) THEN st
  ELSE
    LET route == routes[i]
        charge == mul(st.cost.totalCost, num(route.markupValue))
    IN applyRoutes(routes, i + 1, fieldName, ruleId, productId, entityId,
         IF route.markupType = "revenue-percent"
         THEN [cost |-> [st.cost EXCEPT ![fieldName] = add(@, charge),
                                        !.totalCost = add(@, charge)],
               ruleOutput |-> add(st.ruleOutput, charge),
               c |-> recordContribution(st.c, productId, entityId, ruleId, charge)]
         ELSE st)

\* transferRoutes.filter(r => r.to === entityId && r.itemTypes.includes(t))
routesTo(c, entityId, itemType) ==
  SelectSeq(c.transferRoutes,
            LAMBDA r : r.to = entityId /\ itemType \in Range(r.itemTypes))

\* the switch of applyRule on rule.type: the cost record, the rule output
\* and the calculator after it
applyRuleSwitch(c, rule, cost, productId, entityId, period, targetCurrency) ==
  LET unchanged == [cost |-> cost, ruleOutput |-> Zero, c |-> c]
      pool == IF "poolId" \in DOMAIN rule
              THEN field(c.costPools, rule.poolId) ELSE Undefined
      poolPeriod == field(pool.periods, period)
  IN CASE fieldIs(rule, "type", "sum-components") ->
            [unchanged EXCEPT
               !.ruleOutput = add(cost.directMaterial, cost.directLabor)]
       [] fieldIs(rule, "type", "labor-burden") ->
            IF gt(cost.directLabor, Zero)
            THEN bind(mul(cost.directLabor, num(field(rule, "burdenRate"))),
                      LAMBDA burden :
                   [cost |-> [cost EXCEPT !.laborBurden = burden,
                                          !.totalCost = add(@, burden)],
                    ruleOutput |-> burden,
                    c |-> recordContribution(c, productId, entityId, rule.id,
                                             burden)])
            ELSE unchanged
       [] fieldIs(rule, "type", "percentage-of-base") ->
            bind(mul(baseAmountOf(IF "baseRules" \notin DOMAIN rule THEN <<>>
                                  ELSE rule.baseRules, 1, cost, Zero),
                     num(field(rule, "percentage"))),
                 LAMBDA overhead :
              [cost |-> [cost EXCEPT !.factoryOverhead = overhead,
                                     !.totalCost = add(@, overhead)],
               ruleOutput |-> overhead,
               c |-> recordContribution(c, productId, entityId, rule.id,
                                        overhead)])
       [] fieldIs(rule, "type", "per-unit-allocation") ->
            IF pool = Undefined THEN unchanged
            ELSE
              bind(getTotalProductionVolume(c, period,
                                            field(rule, "lookbackPeriods")),
                   LAMBDA totalVolume :
              bind(getProductVolume(c, productId, entityId, period),
                   LAMBDA productVolume :
                IF ~(gt(totalVolume, Zero) /\ gt(productVolume, Zero))
                THEN unchanged
                ELSE
                  bind(convert(c.exchangeRates,
                               IF poolPeriod = Undefined THEN Zero
                               ELSE orZero(field(poolPeriod, "amount")),
                               IF poolPeriod = Undefined
                                  \/ "currency" \notin DOMAIN poolPeriod
                               THEN "USD" ELSE poolPeriod.currency,
                               targetCurrency, period),
                       LAMBDA poolAmount :
                    IF poolAmount.threw
                    THEN [unchanged EXCEPT !.c = raise(c, poolAmount.error)]
                    ELSE
                      bind(mul(div(poolAmount.val, totalVolume),
                               div(productVolume, productVolume)),
                           LAMBDA allocation :
                        [cost |-> [cost EXCEPT !.rndAmortization = allocation,
                                               !.totalCost = add(@, allocation)],
                         ruleOutput |-> allocation,
                         c |-> recordContribution(c, productId, entityId,
                                                  rule.id, allocation)]))))
       [] fieldIs(rule, "type", "transfer-price") ->
            IF fieldIs(rule, "transferType", "royalty")
            THEN applyRoutes(routesTo(c, entityId, "royalty"), 1, "royalty",
                             rule.id, productId, entityId, unchanged)
            ELSE IF fieldIs(rule, "transferType", "mgmt-fee")
            THEN applyRoutes(routesTo(c, entityId, "mgmt-fee"), 1,
                             "managementFee", rule.id, productId, entityId,
                             unchanged)
            ELSE unchanged
       [] OTHER -> unchanged

\* applyRule(rule, productId, entityId, period, targetCurrency).  rule is
\* undefined when the caller looked up an id that is not a rule; reading
\* rule.type then throws a TypeError
applyRule(c, re, rule, productId, entityId, period, targetCurrency) ==
  LET cost == getCost(c.costState, productId, entityId, period)
  IN IF c.exc # NoExc \/ cost = Undefined THEN c
     ELSE IF rule = Undefined
     THEN raise(c, "TypeError: Cannot read properties of undefined")
     ELSE
       bind(applyRuleSwitch(c, rule, cost, productId, entityId, period,
                            targetCurrency),
            LAMBDA r :
         IF r.c.exc # NoExc THEN r.c
         ELSE [r.c EXCEPT !.costState =
                 setCost(setRuleOutput(@, rule.id, productId, entityId, period,
                                       r.ruleOutput),
                         productId, entityId, period, r.cost)])

\* the cost records a call of applyRule writes: none when the record does
\* not exist (the early return), else the record of the product in the
\* entity, whatever the type of the rule (setCost ends the method)
applyRuleWrites(c, rule, productId, entityId, period) ==
  IF getCost(c.costState, productId, entityId, period) = Undefined THEN {}
  ELSE {getCostKey(productId, entityId, period)}

RECURSIVE executeRuleLoop(_, _, _, _, _, _, _, _)
\* the two loops of executeRule: products outside, manufacturing entities
\* inside
executeRuleLoop(c, re, rule, productIds, i, j, period, targetCurrency) ==
  LET entities == getManufacturingEntities(c)
  IN IF i > Len(productIds) \/ c.exc # NoExc THEN c
     ELSE IF j > Len(entities)
     THEN executeRuleLoop(c, re, rule, productIds, i + 1, 1, period,
                          targetCurrency)
     ELSE executeRuleLoop(
            applyRule(c, re, rule, productIds[i], entities[j].id, period,
                      targetCurrency),
            re, rule, productIds, i, j + 1, period, targetCurrency)

\* executeRule(ruleId, productIds, period, targetCurrency)
executeRule(c, re, ruleId, productIds, period, targetCurrency) ==
  LET rule == getRule(re, ruleId)
  IN IF c.exc # NoExc \/ rule = Undefined THEN c
     ELSE executeRuleLoop(c, re, rule, productIds, 1, 1, period, targetCurrency)

\* a duty of 3 % whatever the country
dutyRateFlat(toEntity) == Num(3, 100)

\* ---- calculateTransferPrice --------------------------------------------
\* the duty rate of a hop into toEntity
dutyRate(toEntity) ==
  IF toEntity.country = "DE" THEN Num(4, 100)
  ELSE IF toEntity.country = "US" THEN Num(25, 1000)
  ELSE Num(3, 100)

RECURSIVE walkPath(_, _, _, _, _)
\* the loop over the hops of a path, from hop i on (hop 1 is the second
\* element of the path); transferCost is the running cost, pathCosts the
\* list of { entity, cost, markup }
walkPath(c, path, i, transferCost, pathCosts) ==
  IF i > Len(path) THEN [transferCost |-> transferCost, pathCosts |-> pathCosts]
  ELSE
    LET step == path[i]
        route == step.edge.meta
        prevEntity == path[i - 1].node
    IN bind(IF route.markupType = "cost-plus"
            THEN mul(transferCost, add(One, num(route.markupValue)))
            ELSE IF route.markupType = "resale-minus"
            THEN mul(transferCost,
                     add(One, mul(num(route.markupValue), Num(1, 2))))
            ELSE transferCost,
            LAMBDA marked :
       bind(IF isCrossBorder(c, prevEntity, step.node)
            THEN add(marked, mul(marked, dutyRate(getEntity(c, step.node))))
            ELSE marked,
            LAMBDA withDuty :
         walkPath(c, path, i + 1, withDuty,
                  Append(pathCosts, [entity |-> step.node, cost |-> withDuty,
                                     markup |-> route.markupValue]))))

\* no path chosen yet: bestCost = Infinity, bestPath = bestSourceEntity = null
NoBest == [bestCost |-> Infinity, found |-> FALSE]

RECURSIVE selectBestPathLastWins(_, _, _, _, _, _, _, _)
RECURSIVE selectBestPath(_, _, _, _, _, _, _, _)

\* a selection that replaces the best path by any path that costs no more
selectBestPathLastWins(c, productId, destEntityId, period, entities, i, j, best) ==
  IF i > Len(entities) THEN best
  ELSE
    LET mfgEntity == entities[i]
        sourceCost == getCost(c.costState, productId, mfgEntity.id, period)
    IN bind(findTransferPaths(c, mfgEntity.id, destEntityId), LAMBDA paths :
         IF j > Len(paths)
         THEN selectBestPath(c, productId, destEntityId, period, entities,
                             i + 1, 1, best)
         ELSE
           bind(walkPath(c, paths[j], 2, sourceCost.totalCost,
                         <<[entity |-> mfgEntity.id,
                            cost |-> sourceCost.totalCost]>>),
                LAMBDA walked :
             selectBestPath(c, productId, destEntityId, period, entities, i,
               j + 1,
               IF sourceCost # Undefined
                  /\ le(walked.transferCost, best.bestCost)
               THEN [bestCost |-> walked.transferCost, found |-> TRUE,
                     bestPath |-> walked.pathCosts,
                     bestSourceEntity |-> mfgEntity.id]
               ELSE best)))

\* the two loops of calculateTransferPrice, manufacturing entities outside
\* and their paths to destEntityId inside, from the j-th path of the i-th
\* entity on
selectBestPath(c, productId, destEntityId, period, entities, i, j, best) ==
  IF i > Len(entities) THEN best
  ELSE
    LET mfgEntity == entities[i]
        sourceCost == getCost(c.costState, productId, mfgEntity.id, period)
    IN bind(findTransferPaths(c, mfgEntity.id, destEntityId), LAMBDA paths :
         IF j > Len(paths)
         THEN selectBestPath(c, productId, destEntityId, period, entities,
                             i + 1, 1, best)
         ELSE
           bind(walkPath(c, paths[j], 2, sourceCost.totalCost,
                         <<[entity |-> mfgEntity.id,
                            cost |-> sourceCost.totalCost]>>),
                LAMBDA walked :
             selectBestPath(c, productId, destEntityId, period, entities, i,
               j + 1,
               IF sourceCost # Undefined
                  /\ lt(walked.transferCost, best.bestCost)
               THEN [bestCost |-> walked.transferCost, found |-> TRUE,
                     bestPath |-> walked.pathCosts,
                     bestSourceEntity |-> mfgEntity.id]
               ELSE best)))

\* calculateTransferPrice(productId, destEntityId, period, targetCurrency)
calculateTransferPrice(c, productId, destEntityId, period, targetCurrency) ==
  LET destEntity == getEntity(c, destEntityId)
  IN IF c.exc # NoExc THEN c
     ELSE IF destEntity = Undefined \/ destEntity.type # "distribution" THEN c
     ELSE
       bind(selectBestPath(c, productId, destEntityId, period,
                           getManufacturingEntities(c), 1, 1, NoBest),
            LAMBDA best :
         IF ~best.found THEN c
         ELSE
           LET sourceCost == getCost(c.costState, productId,
                                     best.bestSourceEntity, period)
               breakdown ==
                 [directMaterial |-> sourceCost.directMaterial,
                  directLabor |-> sourceCost.directLabor,
                  scrapAdjustment |-> sourceCost.scrapAdjustment,
                  laborBurden |-> sourceCost.laborBurden,
                  factoryOverhead |-> sourceCost.factoryOverhead,
                  rndAmortization |-> sourceCost.rndAmortization,
                  royalty |-> sourceCost.royalty,
                  managementFee |-> sourceCost.managementFee,
                  interCompanyMarkup |-> sub(best.bestCost, sourceCost.totalCost),
                  customsDuties |-> Zero,
                  totalCost |-> best.bestCost,
                  sourceEntity |-> best.bestSourceEntity,
                  transferPath |-> best.bestPath]
           IN recordContribution(
                [c EXCEPT !.costState =
                   setCost(@, productId, destEntityId, period, breakdown)],
                productId, destEntityId, "TRANSFER",
                sub(best.bestCost, sourceCost.totalCost)))

\* ---- calculateWeightedAverage ------------------------------------------
\* weights = { current: 0.6, 'prior-1': 0.25, 'prior-2': 0.15 }
priorWeights == <<Num(25, 100), Num(15, 100)>>

RECURSIVE weightedPriors(_, _, _, _, _, _)
\* the loop over the prior periods; acc holds weightedCost and totalWeight
weightedPriors(c, productId, entityId, priorPeriods, i, acc) ==
  IF i > Len(priorPeriods) THEN acc
  ELSE
    LET priorCost == getCost(c.costState, productId, entityId, priorPeriods[i])
    IN weightedPriors(c, productId, entityId, priorPeriods, i + 1,
         IF priorCost # Undefined
         THEN [weightedCost |-> add(acc.weightedCost,
                                    mul(num(field(priorCost, "totalCost")),
                                        priorWeights[i])),
               totalWeight |-> add(acc.totalWeight, priorWeights[i])]
         ELSE acc)

RECURSIVE weightedAverageLoop(_, _, _, _)
\* the loop of calculateWeightedAverage over all entities
weightedAverageLoop(c, productId, period, i) ==
  IF i > Len(getAllEntities(c)) THEN c
  ELSE
    LET entityId == getAllEntities(c)[i].id
        currentCost == getCost(c.costState, productId, entityId, period)
        acc == weightedPriors(c, productId, entityId,
                 getPriorPeriods(period, 2), 1,
                 [weightedCost |-> mul(num(field(currentCost, "totalCost")),
                                       Num(6, 10)),
                  totalWeight |-> Num(6, 10)])
    IN weightedAverageLoop(
         IF currentCost = Undefined THEN c
         ELSE [c EXCEPT !.costState =
                 setCost(@, productId, entityId, period,
                         withField(currentCost, "weightedAverageCost",
                                   div(acc.weightedCost, acc.totalWeight)))],
         productId, period, i + 1)

calculateWeightedAverage(c, productId, period, targetCurrency) ==
  IF c.exc # NoExc THEN c ELSE weightedAverageLoop(c, productId, period, 1)

\* ---- calculateVariance -------------------------------------------------
\* standardCosts[productId] is { entityId: cost, ..., currency }: its entries
\* but currency are the sequence entries of <<entityId, cost>>
RECURSIVE varianceLoop(_, _, _, _, _, _)
varianceLoop(c, productId, period, targetCurrency, standards, i) ==
  IF i > Len(standards.entries) \/ c.exc # NoExc THEN c
  ELSE
    LET entityId == standards.entries[i][1]
        standardCost == standards.entries[i][2]
        actualCost == getCost(c.costState, productId, entityId, period)
    IN varianceLoop(
         IF actualCost = Undefined THEN c
         ELSE
           bind(convert(c.exchangeRates, standardCost,
                        IF "currency" \in DOMAIN standards
                        THEN standards.currency ELSE "USD",
                        targetCurrency, period),
                LAMBDA standardInTarget :
             IF standardInTarget.threw THEN raise(c, standardInTarget.error)
             ELSE
               bind(sub(num(field(actualCost, "totalCost")),
                        standardInTarget.val),
                    LAMBDA diff :
                 recordContribution(
                   [c EXCEPT !.costState =
                      setCost(@, productId, entityId, period,
                              withField(actualCost, "variance",
                                [amount |-> diff,
                                 percentage |-> div(diff, standardInTarget.val),
                                 favorable |->
                                   lt(num(field(actualCost, "totalCost")),
                                      standardInTarget.val)]))],
                   productId, entityId, "VARIANCE", diff))),
         productId, period, targetCurrency, standards, i + 1)

calculateVariance(c, productId, period, targetCurrency) ==
  IF c.exc # NoExc \/ ~mapHas(c.standardCosts, productId) THEN c
  ELSE varianceLoop(c, productId, period, targetCurrency,
                    c.standardCosts[productId], 1)

\* ---- calculate ---------------------------------------------------------
\* the options of calculate() when the caller gives none
DefaultPeriod == "2024-Q4"
DefaultCurrency == "USD"
DefaultOptions == [period |-> DefaultPeriod, targetCurrency |-> DefaultCurrency]

RECURSIVE phase1(_, _, _, _, _, _, _)
\* Phase 1: calculateBaseCost for every product of explosionOrder (outside)
\* and every manufacturing entity (inside)
phase1(c, bp, explosionOrder, i, j, period, targetCurrency) ==
  LET entities == getManufacturingEntities(c)
  IN IF i > Len(explosionOrder) \/ c.exc # NoExc THEN c
     ELSE IF j > Len(entities)
     THEN phase1(c, bp, explosionOrder, i + 1, 1, period, targetCurrency)
     ELSE phase1(calculateBaseCost(c, bp, explosionOrder[i], entities[j].id,
                                   period, targetCurrency),
                 bp, explosionOrder, i, j + 1, period, targetCurrency)

RECURSIVE phase2(_, _, _, _, _, _, _)
\* Phase 2: executeRule for every id of the execution order
phase2(c, re, executionOrder, i, productIds, period, targetCurrency) ==
  IF i > Len(executionOrder) \/ c.exc # NoExc THEN c
  ELSE phase2(executeRule(c, re, executionOrder[i], productIds, period,
                          targetCurrency),
              re, executionOrder, i + 1, productIds, period, targetCurrency)

RECURSIVE phase3(_, _, _, _, _, _)
\* Phase 3: calculateTransferPrice for every product (outside) and every
\* distribution entity (inside)
phase3(c, productIds, i, j, period, targetCurrency) ==
  LET entities == getDistributionEntities(c)
  IN IF i > Len(productIds) \/ c.exc # NoExc THEN c
     ELSE IF j > Len(entities)
     THEN phase3(c, productIds, i + 1, 1, period, targetCurrency)
     ELSE phase3(calculateTransferPrice(c, productIds[i], entities[j].id,
                                        period, targetCurrency),
                 productIds, i, j + 1, period, targetCurrency)

RECURSIVE phase4(_, _, _, _, _)
\* Phase 4: calculateWeightedAverage for every product
phase4(c, productIds, i, period, targetCurrency) ==
  IF i > Len(productIds) \/ c.exc # NoExc THEN c
  ELSE phase4(calculateWeightedAverage(c, productIds[i], period, targetCurrency),
              productIds, i + 1, period, targetCurrency)

RECURSIVE phase5(_, _, _, _, _)
\* Phase 5: calculateVariance for every product
phase5(c, productIds, i, period, targetCurrency) ==
  IF i > Len(productIds) \/ c.exc # NoExc THEN c
  ELSE phase5(calculateVariance(c, productIds[i], period, targetCurrency),
              productIds, i + 1, period, targetCurrency)

\* the properties calculate() deletes from the copy of a cost record
DeletedFromBreakdown == {"_key", "totalCost", "weightedAverageCost", "variance"}

\* results.costs[productId][entityId] for a cost record.  contributions is
\* the array of the audit trail itself, not a copy
costResult(c, cost, productId, entityId, targetCurrency) ==
  [breakdown |-> [f \in DOMAIN cost \ DeletedFromBreakdown |-> cost[f]],
   totalCost |-> orZero(field(cost, "totalCost")),
   weightedAverageCost |-> field(cost, "weightedAverageCost"),
   standardCostVariance |-> field(cost, "variance"),
   currency |-> targetCurrency,
   contributions |-> getContributions(c, productId, entityId)]

\* the loop that compiles results.costs
compileCosts(c, productIds, period, targetCurrency) ==
  [productId \in Range(productIds) |->
     [entityId \in {e.id : e \in {x \in Range(getAllEntities(c)) :
                      getCost(c.costState, productId, x.id, period) # Undefined}}
        |-> costResult(c, getCost(c.costState, productId, entityId, period),
                       productId, entityId, targetCurrency)]]

\* calculate(options): the calculator after the call and the outcome
calculate(c, bp, re, options) ==
  LET period == options.period
      targetCurrency == options.targetCurrency
      productIds == IF "products" \in DOMAIN options THEN options.products
                    ELSE getAllProducts(bp)
  IN bind(getExecutionOrder(re), LAMBDA ruleExecutionOrder :
     bind(getParallelGroups(re), LAMBDA parallelGroups :
     bind(getExplosionOrder(bp), LAMBDA sorted :
       IF parallelGroups.threw
       THEN [c |-> c, out |-> Threw(parallelGroups.error)]
       ELSE IF sorted.threw THEN [c |-> c, out |-> Threw(sorted.error)]
       ELSE
         bind(phase5(
                phase4(
                  phase3(
                    phase2(
                      phase1(c, bp,
                             SelectSeq(sorted.val,
                                       LAMBDA p : p \in Range(productIds)),
                             1, 1, period, targetCurrency),
                      re, ruleExecutionOrder, 1, productIds, period,
                      targetCurrency),
                    productIds, 1, 1, period, targetCurrency),
                  productIds, 1, period, targetCurrency),
                productIds, 1, period, targetCurrency),
              LAMBDA c5 :
                IF c5.exc # NoExc
                THEN [c |-> [c5 EXCEPT !.exc = NoExc], out |-> Threw(c5.exc)]
                ELSE [c |-> c5,
                      out |-> Returned(
                        [costs |-> compileCosts(c5, productIds, period,
                                                targetCurrency),
                         ruleExecutionOrder |-> ruleExecutionOrder,
                         parallelGroups |-> parallelGroups.val,
                         warnings |-> c5.warnings,
                         metadata |-> [period |-> period,
                                       targetCurrency |-> targetCurrency],
                         auditTrail |->
                           [contributions |-> c5.contributions]])]))))

\* ---- updateCost, recalculateIncremental --------------------------------
\* updateCost(itemId, entityId, period, newCost).  costData is the object of
\* the configuration itself, so its unit changes there too
updateCost(c, itemId, entityId, period, newCost) ==
  LET key == getCostKey(itemId, entityId, period)
      marked == markDirty(c.costState, key)
      c1 == [c EXCEPT !.costState = marked.cs]
      c2 == IF mapHas(c1.periodCosts, key)
            THEN [c1 EXCEPT !.periodCosts[key].unit = newCost]
            ELSE c1
  IN IF marked.threw
     THEN [c |-> c1, out |-> Threw("RangeError: Maximum call stack size exceeded")]
     ELSE [c |-> c2, out |-> Returned(getDirtyKeys(c2.costState))]

RECURSIVE recalculateBase(_, _, _, _, _)
\* the first loop of recalculateIncremental: calculateBaseCost per dirty key
\* (key.split(':') gives the three parts back)
recalculateBase(c, bp, toRecalculate, i, targetCurrency) ==
  IF i > Len(toRecalculate) \/ c.exc # NoExc THEN c
  ELSE recalculateBase(
         calculateBaseCost(c, bp, toRecalculate[i][1], toRecalculate[i][2],
                           toRecalculate[i][3], targetCurrency),
         bp, toRecalculate, i + 1, targetCurrency)

RECURSIVE recalculateRules(_, _, _, _, _, _, _)
\* the second loop: every rule of the execution order (outside) on every
\* dirty key (inside); getRule of an id that is not a rule is undefined
recalculateRules(c, re, executionOrder, i, toRecalculate, j, targetCurrency) ==
  IF i > Len(executionOrder) \/ c.exc # NoExc THEN c
  ELSE IF j > Len(toRecalculate)
  THEN recalculateRules(c, re, executionOrder, i + 1, toRecalculate, 1,
                        targetCurrency)
  ELSE recalculateRules(
         applyRule(c, re, getRule(re, executionOrder[i]), toRecalculate[j][1],
                   toRecalculate[j][2], toRecalculate[j][3], targetCurrency),
         re, executionOrder, i, toRecalculate, j + 1, targetCurrency)

\* recalculateIncremental(options)
recalculateIncremental(c, bp, re, options) ==
  LET dirtyKeys == getDirtyKeys(c.costState)
      targetCurrency == IF "targetCurrency" \in DOMAIN options
                        THEN options.targetCurrency ELSE "USD"
  IN IF Len(dirtyKeys) = 0
     THEN [c |-> c, out |-> Returned([recalculated |-> 0])]
     ELSE
       bind(recalculateRules(
              recalculateBase(c, bp, dirtyKeys, 1, targetCurrency),
              re, getExecutionOrder(re), 1, dirtyKeys, 1, targetCurrency),
            LAMBDA c2 :
         IF c2.exc # NoExc
         THEN [c |-> [c2 EXCEPT !.exc = NoExc], out |-> Threw(c2.exc)]
         ELSE [c |-> [c2 EXCEPT !.costState = clearDirty(@)],
               out |-> Returned([recalculated |-> Len(dirtyKeys)])])

\* ---- whatIf ------------------------------------------------------------
RECURSIVE applyChanges(_, _, _)
\* the loop over the changes of one scenario
applyChanges(periodCosts, changes, i) ==
  IF i > Len(changes) THEN periodCosts
  ELSE applyChanges(
         IF changes[i].type = "cost"
         THEN mapSet(periodCosts,
                     <<changes[i].itemId, changes[i].entityId, changes[i].period>>,
                     [unit |-> changes[i].value,
                      currency |-> IF "currency" \in DOMAIN changes[i]
                                   THEN changes[i].currency ELSE "USD"])
         ELSE periodCosts,
         changes, i + 1)

RECURSIVE whatIfLoop(_, _, _, _, _, _, _)
\* the loop of whatIf over the scenarios, a sequence of [name, changes];
\* results maps the names done so far to their results.  An exception of
\* calculate leaves the loop before the state is restored
whatIfLoop(c, bp, re, scenarios, i, options, results) ==
  IF i > Len(scenarios) THEN [c |-> c, out |-> Returned(results)]
  ELSE
    LET originalState == clone(c.costState)
        originalPeriodCosts == c.periodCosts
        changed == [c EXCEPT
                      !.periodCosts = applyChanges(@, scenarios[i].changes, 1),
                      !.costState = NewCostState]
    IN bind(calculate(changed, bp, re, options), LAMBDA r :
         IF r.out.threw THEN r
         ELSE whatIfLoop([r.c EXCEPT !.costState = originalState,
                                     !.periodCosts = originalPeriodCosts],
                         bp, re, scenarios, i + 1, options,
                         mapSet(results, scenarios[i].name, r.out.val)))

\* what results holds when whatIf returns: the contributions and warnings
\* arrays of every scenario result are the arrays of the calculator itself
sharedArrays(c, result) ==
  [result EXCEPT
     !.warnings = c.warnings,
     !.auditTrail = [contributions |-> c.contributions],
     !.costs = [productId \in DOMAIN result.costs |->
                  [entityId \in DOMAIN result.costs[productId] |->
                     [result.costs[productId][entityId] EXCEPT
                        !.contributions =
                           getContributions(c, productId, entityId)]]]]

\* whatIf(scenarios, options)
whatIf(c, bp, re, scenarios, options) ==
  bind(whatIfLoop(c, bp, re, scenarios, 1, options, EmptyMap), LAMBDA r :
    IF r.out.threw THEN r
    ELSE [c |-> r.c,
          out |-> Returned([name \in DOMAIN r.out.val |->
                              sharedArrays(r.c, r.out.val[name])])])

\* ---- resolveRoyaltyCycle -----------------------------------------------
\* getCost(productId, entityId, period)?.totalCost || 0
totalCostOrZero(c, productId, entityId, period) ==
  orZero(field(getCost(c.costState, productId, entityId, period), "totalCost"))

RECURSIVE royaltyRules(_, _, _, _, _, _, _, _)
\* the loop of one pass over the execution order: applyRule for the royalty
\* rules; reading rule.type of an id that is not a rule throws a TypeError
royaltyRules(c, re, executionOrder, i, productId, entityId, period, targetCurrency) ==
  IF i > Len(executionOrder) \/ c.exc # NoExc THEN c
  ELSE
    LET rule == getRule(re, executionOrder[i])
    IN royaltyRules(
         IF rule = Undefined
         THEN raise(c, "TypeError: Cannot read properties of undefined")
         ELSE IF fieldIs(rule, "type", "transfer-price")
                 /\ fieldIs(rule, "transferType", "royalty")
         THEN applyRule(c, re, rule, productId, entityId, period, targetCurrency)
         ELSE c,
         re, executionOrder, i + 1, productId, entityId, period, targetCurrency)

\* one pass of the loop of resolveRoyaltyCycle: the base cost, then the
\* royalty rules
royaltyPass(c, bp, re, productId, entityId, period, targetCurrency) ==
  royaltyRules(
    calculateBaseCost(c, bp, productId, entityId, period, targetCurrency),
    re, getExecutionOrder(re), 1, productId, entityId, period, targetCurrency)

RECURSIVE royaltyLoopToCap(_, _, _, _, _, _, _, _, _)
RECURSIVE royaltyLoop(_, _, _, _, _, _, _, _, _)
\* a loop that tests the iteration count only
royaltyLoopToCap(st, bp, re, productId, entityId, period, targetCurrency, maxIterations, tolerance) ==
  IF ~(st.iterations < maxIterations)
  THEN st
  ELSE
    bind(royaltyPass(st.c, bp, re, productId, entityId, period, targetCurrency),
         LAMBDA c1 :
      IF c1.exc # NoExc
      THEN [st EXCEPT !.c = c1]
      ELSE royaltyLoopToCap(
             [c |-> c1, prevCost |-> st.currentCost,
              currentCost |-> totalCostOrZero(c1, productId, entityId, period),
              iterations |-> st.iterations + 1],
             bp, re, productId, entityId, period, targetCurrency,
             maxIterations, tolerance))

\* the while loop; st holds the calculator, prevCost, currentCost and
\* iterations
royaltyLoop(st, bp, re, productId, entityId, period, targetCurrency, maxIterations, tolerance) ==
  IF ~(gt(absNum(sub(st.currentCost, st.prevCost)), tolerance)
         /\ st.iterations < maxIterations)
  THEN st
  ELSE
    bind(royaltyPass(st.c, bp, re, productId, entityId, period, targetCurrency),
         LAMBDA c1 :
      IF c1.exc # NoExc
      THEN [st EXCEPT !.c = c1]
      ELSE royaltyLoop(
             [c |-> c1, prevCost |-> st.currentCost,
              currentCost |-> totalCostOrZero(c1, productId, entityId, period),
              iterations |-> st.iterations + 1],
             bp, re, productId, entityId, period, targetCurrency,
             maxIterations, tolerance))

\* resolveRoyaltyCycle(productId, entityId, period, targetCurrency,
\*                     maxIterations, tolerance)
resolveRoyaltyCycle(c, bp, re, productId, entityId, period, targetCurrency, maxIterations, tolerance) ==
  bind(royaltyLoop(
         [c |-> c, prevCost |-> Zero,
          currentCost |-> totalCostOrZero(c, productId, entityId, period),
          iterations |-> 0],
         bp, re, productId, entityId, period, targetCurrency,
         maxIterations, tolerance),
       LAMBDA st :
    IF st.c.exc # NoExc
    THEN [c |-> [st.c EXCEPT !.exc = NoExc], out |-> Threw(st.c.exc)]
    ELSE [c |-> st.c,
          out |-> Returned(
            [converged |-> le(absNum(sub(st.currentCost, st.prevCost)),
                              tolerance),
             iterations |-> st.iterations,
             finalCost |-> st.currentCost])])

(***************************************************************************)
(* Reference notions the properties are stated with                        *)
(***************************************************************************)
\* the set of edges (u, v) of g
EdgePairs(g) ==
  UNION {{<<u, getNeighbors(g, u)[i].node>> : i \in DOMAIN getNeighbors(g, u)} :
           u \in Range(getNodes(g))}

\* the nodes an edge of E leaves from or arrives at
EndPoints(E) == {e[1] : e \in E} \cup {e[2] : e \in E}

Successors(E, u) == {e[2] : e \in {x \in E : x[1] = u}}

\* S and what is reachable from S in at most k edges of E
RECURSIVE ReachableIn(_, _, _)
ReachableIn(E, S, k) ==
  IF k = 0 THEN S
  ELSE ReachableIn(E, S \cup UNION {Successors(E, u) : u \in S}, k - 1)

\* what is reachable from u by one edge of E or more
Descendants(E, u) ==
  ReachableIn(E, Successors(E, u), Cardinality(EndPoints(E)))

\* the edge set E contains a directed cycle (a self-loop is one)
HasCycle(E) == \E u \in EndPoints(E) : u \in Descendants(E, u)

\* s holds every element of S exactly once
IsPermutationOf(s, S) ==
  /\ Range(s) = S
  /\ Len(s) = Cardinality(S)

\* u occurs before v in s
Before(s, u, v) ==
  \E i, j \in DOMAIN s : i < j /\ s[i] = u /\ s[j] = v

\* s is a topological order of g
IsTopologicalOrder(s, g) ==
  /\ IsPermutationOf(s, Range(getNodes(g)))
  /\ \A e \in EdgePairs(g) : Before(s, e[1], e[2])


(***************************************************************************)
(* A stand-alone Graph object and the calls made on it                     *)
(***************************************************************************)
RECURSIVE EdgeCountFrom(_, _)
EdgeCountFrom(g, i) ==
  IF i > Len(getNodes(g)) THEN 0
  ELSE Len(getNeighbors(g, getNodes(g)[i])) + EdgeCountFrom(g, i + 1)

EdgeCount(g) == EdgeCountFrom(g, 1)

\* the variables a call on the stand-alone Graph leaves alone
otherVars == <<billOfMaterials, bomProcessor, expansions, allocationRules,
               ruleEngine, calculator, costState, config, calls>>

GraphInit ==
  /\ graph = NewGraph
  /\ ret = [op |-> "new Graph"]

GraphAddNode ==
  \E n \in GraphNodes :
    /\ ~hasNode(graph, n)
    /\ graph' = addNode(graph, n)
    /\ ret' = [op |-> "addNode"]
    /\ UNCHANGED otherVars

GraphAddEdge ==
  \E f \in GraphNodes, t \in GraphNodes :
    /\ EdgeCount(graph) < MaxEdges
    /\ graph' = addEdge(graph, f, t, NoMeta)
    /\ ret' = [op |-> "addEdge"]
    /\ UNCHANGED otherVars

GraphDetectCycles ==
  /\ ret' = [op |-> "detectCycles", out |-> Returned(detectCycles(graph))]
  /\ UNCHANGED <<costState, config, calls, graph, otherVars>>

GraphTopologicalSort ==
  /\ ret' = [op |-> "topologicalSort", out |-> topologicalSort(graph)]
  /\ UNCHANGED <<costState, config, calls, graph, otherVars>>

GraphFindAllPaths ==
  \E s \in GraphNodes, e \in GraphNodes, d \in 1..MaxDepthArg :
    /\ ret' = [op |-> "findAllPaths", start |-> s, end |-> e, maxDepth |-> d,
               out |-> Returned(findAllPaths(graph, s, e, d))]
    /\ UNCHANGED <<costState, config, calls, graph, otherVars>>

GraphNext ==
  \/ GraphAddNode
  \/ GraphAddEdge
  \/ GraphDetectCycles
  \/ GraphTopologicalSort
  \/ GraphFindAllPaths


(***************************************************************************)
(* A BOMProcessor: the caller writes a billOfMaterials array, constructs   *)
(* the processor from it and calls its methods                             *)
(***************************************************************************)
\* the component literals a caller writes: a plain component without
\* scrapRate, one with a scrap rate of one half, and one whose scrap rate is 1
PlainKinds ==
  {[quantity |-> Num(1, 1), scrapRate |-> Undefined]}

ComponentKinds ==
  PlainKinds \cup
  {[quantity |-> Num(2, 1), scrapRate |-> Num(1, 2)],
   [quantity |-> Num(1, 1), scrapRate |-> Num(1, 1)]}

RECURSIVE ComponentCount(_)
ComponentCount(items) ==
  IF items = <<>> THEN 0
  ELSE Len(items[Len(items)].components)
         + ComponentCount(SubSeq(items, 1, Len(items) - 1))

bomVars == <<billOfMaterials, bomProcessor, expansions>>
ruleVars == <<allocationRules, ruleEngine>>

\* the configuration arrays are written before any object is constructed
NothingConstructed ==
  /\ bomProcessor = NoObject
  /\ ruleEngine = NoObject
  /\ calculator = NoObject

BomInit ==
  /\ billOfMaterials = <<>>
  /\ bomProcessor = NoObject
  /\ expansions = [p \in ItemIds |-> 0]

\* the caller appends { productId, components: [] } to the array
WriteBomEntry(order) ==
  /\ NothingConstructed
  /\ Len(billOfMaterials) < Len(order)
  /\ billOfMaterials' = Append(billOfMaterials,
       [productId |-> order[Len(billOfMaterials) + 1],
        components |-> <<>>])
  /\ ret' = [op |-> "billOfMaterials"]
  /\ UNCHANGED <<costState, config, calls, graph, bomProcessor, expansions, ruleVars, calculator>>

\* the caller appends a component to the last entry of the array
WriteBomComponent(ids, kinds, max) ==
  \E itemId \in ids, kind \in kinds :
    /\ NothingConstructed
    /\ Len(billOfMaterials) > 0
    /\ ComponentCount(billOfMaterials) < max
    /\ billOfMaterials' =
         [billOfMaterials EXCEPT ![Len(billOfMaterials)].components =
            Append(@, [itemId |-> itemId, quantity |-> kind.quantity,
                       scrapRate |-> kind.scrapRate])]
    /\ ret' = [op |-> "billOfMaterials"]
    /\ UNCHANGED <<costState, config, calls, graph, bomProcessor, expansions, ruleVars, calculator>>

NewBOMProcessor ==
  /\ bomProcessor = NoObject
  /\ calculator = NoObject
  /\ LET r == newBOMProcessor(billOfMaterials)
     IN /\ bomProcessor' = IF r.threw THEN ThrewObject ELSE r.val
        /\ ret' = [op |-> "new BOMProcessor", out |-> [threw |-> r.threw]]
  /\ UNCHANGED <<costState, config, calls, graph, billOfMaterials, expansions, ruleVars, calculator>>

GetExplosionOrder ==
  /\ IsObject(bomProcessor)
  /\ ret' = [op |-> "getExplosionOrder",
             out |-> getExplosionOrder(bomProcessor)]
  /\ UNCHANGED <<costState, config, calls, graph, billOfMaterials, bomProcessor, expansions, ruleVars,
                   calculator>>

ExplodeBOM(ids) ==
  \E productId \in ids :
    /\ IsObject(bomProcessor)
    /\ LET r == explodeBOM(bomProcessor.bom,
                  [explosionCache |-> bomProcessor.explosionCache,
                   expansions |-> expansions],
                  productId, 0, {})
       IN /\ bomProcessor' =
               [bomProcessor EXCEPT !.explosionCache = r.st.explosionCache]
          /\ expansions' = r.st.expansions
          /\ ret' = [op |-> "explodeBOM", productId |-> productId, out |-> r.out]
    /\ UNCHANGED <<costState, config, calls, graph, billOfMaterials, ruleVars, calculator>>

GetFlattenedMaterials(ids) ==
  \E productId \in ids, multiplier \in Multipliers :
    /\ IsObject(bomProcessor)
    /\ ret' = [op |-> "getFlattenedMaterials", productId |-> productId,
               multiplier |-> Num(multiplier, 1),
               out |-> Returned(getFlattenedMaterials(bomProcessor, productId,
                                                      Num(multiplier, 1)))]
    /\ UNCHANGED <<costState, config, calls, graph, billOfMaterials, bomProcessor, expansions, ruleVars,
                   calculator>>

\* bills of materials of plain components over four items
BomNext ==
  \/ WriteBomEntry(ProductOrder)
  \/ WriteBomComponent(ItemIds, PlainKinds, MaxComponents)
  \/ NewBOMProcessor
  \/ GetExplosionOrder
  \/ ExplodeBOM(ItemIds)
  \/ GetFlattenedMaterials(ItemIds)

\* bills of materials whose quantities and scrap rates vary
BomQtyNext ==
  \/ WriteBomEntry(QtyProductOrder)
  \/ WriteBomComponent(QtyItemIds, ComponentKinds, MaxQtyComponents)
  \/ NewBOMProcessor
  \/ GetExplosionOrder
  \/ ExplodeBOM(QtyItemIds)
  \/ GetFlattenedMaterials(QtyItemIds)

(***************************************************************************)
(* A RuleEngine: the caller writes an allocationRules array, constructs    *)
(* the engine from it and calls its methods                                *)
(***************************************************************************)
RECURSIVE DependencyCount(_)
DependencyCount(rules) ==
  IF rules = <<>> THEN 0
  ELSE Len(rules[Len(rules)].dependencies)
         + DependencyCount(SubSeq(rules, 1, Len(rules) - 1))

RuleInit ==
  /\ allocationRules = <<>>
  /\ ruleEngine = NoObject

\* the caller appends { id, dependencies: [] } to the array
WriteRule(order) ==
  /\ NothingConstructed
  /\ Len(allocationRules) < Len(order)
  /\ allocationRules' = Append(allocationRules,
       [id |-> order[Len(allocationRules) + 1], dependencies |-> <<>>])
  /\ ret' = [op |-> "allocationRules"]
  /\ UNCHANGED <<costState, config, calls, graph, bomVars, ruleEngine, calculator>>

\* the caller appends a rule id to the dependencies of the last rule
WriteDependency(ids, max) ==
  \E depId \in ids :
    /\ NothingConstructed
    /\ Len(allocationRules) > 0
    /\ DependencyCount(allocationRules) < max
    /\ allocationRules' =
         [allocationRules EXCEPT ![Len(allocationRules)].dependencies =
            Append(@, depId)]
    /\ ret' = [op |-> "allocationRules"]
    /\ UNCHANGED <<costState, config, calls, graph, bomVars, ruleEngine, calculator>>

NewRuleEngine ==
  /\ ruleEngine = NoObject
  /\ calculator = NoObject
  /\ LET r == newRuleEngine(allocationRules)
     IN /\ ruleEngine' = IF r.threw THEN ThrewObject ELSE r.val
        /\ ret' = [op |-> "new RuleEngine", out |-> [threw |-> r.threw]]
  /\ UNCHANGED <<costState, config, calls, graph, bomVars, allocationRules, calculator>>

GetExecutionOrder ==
  /\ IsObject(ruleEngine)
  /\ ret' = [op |-> "getExecutionOrder",
             out |-> Returned(getExecutionOrder(ruleEngine))]
  /\ UNCHANGED <<costState, config, calls, graph, bomVars, ruleVars, calculator>>

GetParallelGroups ==
  /\ IsObject(ruleEngine)
  /\ ret' = [op |-> "getParallelGroups", out |-> getParallelGroups(ruleEngine)]
  /\ UNCHANGED <<costState, config, calls, graph, bomVars, ruleVars, calculator>>

RuleNext ==
  \/ WriteRule(RuleOrder)
  \/ WriteDependency(RuleIds, MaxDependencies)
  \/ NewRuleEngine
  \/ GetExecutionOrder
  \/ GetParallelGroups

(***************************************************************************)
(* A stand-alone CostState object and the calls made on it                 *)
(***************************************************************************)
RECURSIVE DependencyPairCount(_, _)
\* the number of (source, dependent) pairs registered for the keys in ks
DependencyPairCount(cs, ks) ==
  IF ks = {} THEN 0
  ELSE LET k == CHOOSE x \in ks : TRUE
       IN Len(cs.dependencies[k]) + DependencyPairCount(cs, ks \ {k})

calcVars == <<billOfMaterials, bomProcessor, expansions, allocationRules,
              ruleEngine, calculator, config, calls>>

StateInit == costState = NewCostState

StateAddDependency ==
  \E sourceKey \in StateKeys, dependentKey \in StateKeys :
    /\ DependencyPairCount(costState, DOMAIN costState.dependencies)
         < MaxDependencyPairs
    /\ costState' = addDependency(costState, sourceKey, dependentKey)
    /\ ret' = [op |-> "addDependency"]
    /\ UNCHANGED <<graph, calcVars>>

StateMarkDirty ==
  \E key \in StateKeys :
    /\ LET r == markDirty(costState, key)
       IN /\ costState' = r.cs
          /\ ret' = [op |-> "markDirty", key |-> key,
                     out |-> [threw |-> r.threw]]
    /\ UNCHANGED <<graph, calcVars>>

StateGetDirtyKeys ==
  /\ ret' = [op |-> "getDirtyKeys", out |-> Returned(getDirtyKeys(costState))]
  /\ UNCHANGED <<graph, costState, calcVars>>

StateClearDirty ==
  /\ costState' = clearDirty(costState)
  /\ ret' = [op |-> "clearDirty"]
  /\ UNCHANGED <<graph, calcVars>>

StateNext ==
  \/ StateAddDependency
  \/ StateMarkDirty
  \/ StateGetDirtyKeys
  \/ StateClearDirty

(***************************************************************************)
(* A CostCalculator: built from both arrays; its bomProcessor and its      *)
(* ruleEngine are the objects the method calls go to                       *)
(***************************************************************************)
CalcInit == calculator = NoObject

NewCostCalculator ==
  /\ NothingConstructed
  /\ LET r == newCostCalculator(
                [f \in DOMAIN config \cup {"billOfMaterials", "allocationRules"}
                   |-> IF f = "billOfMaterials" THEN billOfMaterials
                       ELSE IF f = "allocationRules" THEN allocationRules
                       ELSE config[f]])
     IN /\ calculator' = IF r.threw THEN ThrewObject
                         ELSE calculatorFields(r.val)
        /\ bomProcessor' = IF r.threw THEN bomProcessor ELSE r.val.bomProcessor
        /\ ruleEngine' = IF r.threw THEN ruleEngine ELSE r.val.ruleEngine
        /\ ret' = [op |-> "new CostCalculator", out |-> [threw |-> r.threw]]
  /\ UNCHANGED <<costState, config, calls, graph, billOfMaterials, expansions, allocationRules>>

CalcNext ==
  \/ WriteBomEntry(CalcProductOrder)
  \/ WriteBomComponent(CalcItemIds, PlainKinds, MaxCalcComponents)
  \/ WriteRule(CalcRuleOrder)
  \/ WriteDependency(CalcRuleIds, MaxCalcDependencies)
  \/ NewBOMProcessor
  \/ NewRuleEngine
  \/ NewCostCalculator
  \/ GetExplosionOrder
  \/ ExplodeBOM(CalcItemIds)
  \/ GetExecutionOrder
  \/ GetParallelGroups

(***************************************************************************)
(* A CostCalculator with a full configuration: the caller writes the       *)
(* arrays and tables of the configuration, constructs the calculator and   *)
(* calls its methods                                                       *)
(***************************************************************************)
\* the rest of a configuration before the caller wrote any of it
EmptyConfig ==
  [entities |-> <<>>, transferRoutes |-> <<>>, periodCosts |-> <<>>,
   exchangeRates |-> EmptyMap, productionVolumes |-> EmptyMap,
   costPools |-> EmptyMap, standardCosts |-> EmptyMap]

ConfigInit ==
  /\ config = EmptyConfig
  /\ calls = 0

\* the caller writes entities, periodCosts and the tables as one literal
WriteConfig(presets) ==
  \E preset \in presets :
    /\ NothingConstructed
    /\ config = EmptyConfig
    /\ config' = preset
    /\ ret' = [op |-> "config"]
    /\ UNCHANGED <<graph, costState, calls, bomVars, ruleVars, calculator>>

\* the caller appends a route to transferRoutes
WriteRoute(pairs, kinds, max) ==
  \E pair \in pairs, kind \in kinds :
    /\ NothingConstructed
    /\ config.entities # <<>>
    /\ Len(config.transferRoutes) < max
    /\ config' = [config EXCEPT !.transferRoutes =
         Append(@, [from |-> pair[1], to |-> pair[2],
                    itemTypes |-> kind.itemTypes,
                    markupType |-> kind.markupType,
                    markupValue |-> kind.markupValue])]
    /\ ret' = [op |-> "config"]
    /\ UNCHANGED <<graph, costState, calls, bomVars, ruleVars, calculator>>

\* the caller appends a rule of the menu whose id the array does not hold
WriteTypedRule(menu) ==
  \E rule \in menu :
    /\ NothingConstructed
    /\ \A i \in DOMAIN allocationRules : allocationRules[i].id # rule.id
    /\ allocationRules' = Append(allocationRules, rule)
    /\ ret' = [op |-> "allocationRules"]
    /\ UNCHANGED <<graph, costState, config, calls, bomVars, ruleEngine,
                   calculator>>

Calculate(max) ==
  /\ IsObject(calculator)
  /\ calls < max
  /\ LET r == calculate(calculator, bomProcessor, ruleEngine, DefaultOptions)
     IN /\ calculator' = r.c
        /\ ret' = [op |-> "calculate", out |-> r.out]
  /\ calls' = calls + 1
  /\ UNCHANGED <<graph, costState, config, bomVars, ruleVars>>

UpdateCost(itemIds, entityIds, values, max) ==
  \E itemId \in itemIds, entityId \in entityIds, newCost \in values :
    /\ IsObject(calculator)
    /\ calls < max
    /\ LET r == updateCost(calculator, itemId, entityId, DefaultPeriod, newCost)
       IN /\ calculator' = r.c
          /\ ret' = [op |-> "updateCost", itemId |-> itemId,
                     entityId |-> entityId, newCost |-> newCost, out |-> r.out]
    /\ calls' = calls + 1
    /\ UNCHANGED <<graph, costState, config, bomVars, ruleVars>>

RecalculateIncremental(max) ==
  /\ IsObject(calculator)
  /\ calls < max
  /\ LET r == recalculateIncremental(calculator, bomProcessor, ruleEngine,
                                     [targetCurrency |-> DefaultCurrency])
     IN /\ calculator' = r.c
        /\ ret' = [op |-> "recalculateIncremental", out |-> r.out]
  /\ calls' = calls + 1
  /\ UNCHANGED <<graph, costState, config, bomVars, ruleVars>>

WhatIf(scenarioLists, max) ==
  \E scenarios \in scenarioLists :
    /\ IsObject(calculator)
    /\ calls < max
    /\ LET r == whatIf(calculator, bomProcessor, ruleEngine, scenarios,
                       DefaultOptions)
       IN /\ calculator' = r.c
          /\ ret' = [op |-> "whatIf", scenarios |-> scenarios, out |-> r.out]
    /\ calls' = calls + 1
    /\ UNCHANGED <<graph, costState, config, bomVars, ruleVars>>

ResolveRoyaltyCycle(productIds, entityIds, iterationCaps, tolerances, max) ==
  \E productId \in productIds, entityId \in entityIds,
     maxIterations \in iterationCaps, tolerance \in tolerances :
    /\ IsObject(calculator)
    /\ calls < max
    /\ LET r == resolveRoyaltyCycle(calculator, bomProcessor, ruleEngine,
                  productId, entityId, DefaultPeriod, DefaultCurrency,
                  maxIterations, tolerance)
       IN /\ calculator' = r.c
          /\ ret' = [op |-> "resolveRoyaltyCycle", productId |-> productId,
                     entityId |-> entityId, maxIterations |-> maxIterations,
                     tolerance |-> tolerance, out |-> r.out]
    /\ calls' = calls + 1
    /\ UNCHANGED <<graph, costState, config, bomVars, ruleVars>>

\* ---- transfer pricing: two factories, a hub and a distributor ----------
TransferEntities ==
  <<[id |-> "M1", type |-> "manufacturing", country |-> "CN"],
    [id |-> "M2", type |-> "manufacturing", country |-> "MX"],
    [id |-> "H", type |-> "headquarters", country |-> "DE"],
    [id |-> "D1", type |-> "distribution", country |-> "US"]>>

\* { itemId, entityId, periods: { '2024-Q4': { unit, currency: 'USD' } } }
periodCost(itemId, entityId, unit) ==
  [itemId |-> itemId, entityId |-> entityId,
   periods |-> [p \in {DefaultPeriod} |->
                  [unit |-> Num(unit, 1), currency |-> "USD"]]]

\* the raw material A costs the same in both factories, or 10 and 11
TransferPresets ==
  {[EmptyConfig EXCEPT
      !.entities = TransferEntities,
      !.periodCosts = <<periodCost("A", "M1", 10), periodCost("A", "M2", u)>>]
     : u \in {10, 11}}

TransferPairs ==
  {<<"M1", "H">>, <<"M1", "D1">>, <<"M2", "D1">>, <<"H", "D1">>}

\* cost-plus 10 % and resale-minus 40 % (a factor of 1.2)
TransferKinds ==
  {[itemTypes |-> <<"finished-good">>, markupType |-> "cost-plus",
    markupValue |-> Num(1, 10)],
   [itemTypes |-> <<"finished-good">>, markupType |-> "resale-minus",
    markupValue |-> Num(4, 10)]}

TransferNext ==
  \/ WriteBomEntry(TransferProductOrder)
  \/ WriteConfig(TransferPresets)
  \/ WriteRoute(TransferPairs, TransferKinds, MaxRoutes)
  \/ NewCostCalculator
  \/ Calculate(MaxTransferCalls)

\* ---- incremental recalculation: one factory, an assembly B of A and R --
IncrEntities ==
  <<[id |-> "M1", type |-> "manufacturing", country |-> "CN"]>>

IncrPresets ==
  {[EmptyConfig EXCEPT
      !.entities = IncrEntities,
      !.periodCosts = <<periodCost("A", "M1", 10), periodCost("R", "M1", 5)>>]}

\* the new unit costs handed to updateCost
IncrValues == {Num(20, 1)}

\* the test calls calculate() before it updates a cost
Calculated == calls > 0

IncrNext ==
  \/ WriteBomEntry(IncrProductOrder)
  \/ WriteBomComponent(IncrItemIds, PlainKinds, MaxIncrComponents)
  \/ WriteConfig(IncrPresets)
  \/ NewCostCalculator
  \/ Calculate(MaxIncrCalls)
  \/ (Calculated /\ UpdateCost(IncrItemIds, {"M1"}, IncrValues, MaxIncrCalls))
  \/ (Calculated /\ RecalculateIncremental(MaxIncrCalls))

\* ---- royalty resolution: a factory that pays a royalty and a fee -------
RoyaltyEntities ==
  <<[id |-> "M1", type |-> "manufacturing", country |-> "CN"],
    [id |-> "IP", type |-> "ip-holding", country |-> "IE"]>>

\* the product A costs 10 in the factory, or half a cent
RoyaltyPresets ==
  {[EmptyConfig EXCEPT !.entities = RoyaltyEntities,
                       !.periodCosts = <<periodCost("A", "M1", 10)>>],
   [EmptyConfig EXCEPT
      !.entities = RoyaltyEntities,
      !.periodCosts =
         <<[periodCost("A", "M1", 1) EXCEPT
              !.periods[DefaultPeriod].unit = Num(1, 200)]>>]}

RoyaltyPairs == {<<"IP", "M1">>}

\* a royalty of 4 % and a management fee of 2 %
RoyaltyKinds ==
  {[itemTypes |-> <<"royalty">>, markupType |-> "revenue-percent",
    markupValue |-> Num(4, 100)],
   [itemTypes |-> <<"mgmt-fee">>, markupType |-> "revenue-percent",
    markupValue |-> Num(2, 100)]}

\* the royalty rule, the fee rule, and a rule whose dependency is the id of
\* no rule
RoyaltyRules ==
  {[id |-> "R1", type |-> "transfer-price", transferType |-> "royalty",
    dependencies |-> <<>>],
   [id |-> "R2", type |-> "transfer-price", transferType |-> "mgmt-fee",
    dependencies |-> <<>>],
   [id |-> "R3", type |-> "conditional", dependencies |-> <<"R9">>]}

\* maxIterations = 10 and tolerance = 0.01 are the defaults
IterationCaps == {0, 1, 10}
Tolerances == {Num(1, 100), Num(-1, 1)}

RoyaltyNext ==
  \/ WriteBomEntry(RoyaltyProductOrder)
  \/ WriteConfig(RoyaltyPresets)
  \/ WriteRoute(RoyaltyPairs, RoyaltyKinds, MaxRoyaltyRoutes)
  \/ WriteTypedRule(RoyaltyRules)
  \/ NewCostCalculator
  \/ Calculate(MaxRoyaltyCalls)
  \/ ResolveRoyaltyCycle({"A"}, {"M1"}, IterationCaps, Tolerances,
                         MaxRoyaltyCalls)

\* ---- cost records under rules: overhead rules and a royalty ------------
CostPresets ==
  {[EmptyConfig EXCEPT !.entities = RoyaltyEntities,
                       !.periodCosts = <<periodCost("A", "M1", 10)>>]}

\* two overhead rules on the material cost (10 % and 20 %) and the royalty
\* rule
CostRules ==
  {[id |-> "P1", type |-> "percentage-of-base", baseRules |-> <<"RULE-002">>,
    percentage |-> Num(1, 10), dependencies |-> <<>>],
   [id |-> "P2", type |-> "percentage-of-base", baseRules |-> <<"RULE-002">>,
    percentage |-> Num(2, 10), dependencies |-> <<>>],
   [id |-> "R1", type |-> "transfer-price", transferType |-> "royalty",
    dependencies |-> <<>>]}

CostNext ==
  \/ WriteBomEntry(CostProductOrder)
  \/ WriteConfig(CostPresets)
  \/ WriteRoute(RoyaltyPairs, RoyaltyKinds, MaxCostRoutes)
  \/ WriteTypedRule(CostRules)
  \/ NewCostCalculator
  \/ Calculate(MaxCostCalls)
  \/ (Calculated /\ UpdateCost({"A"}, {"M1"}, IncrValues, MaxCostCalls))
  \/ (Calculated /\ RecalculateIncremental(MaxCostCalls))
  \/ ResolveRoyaltyCycle({"A"}, {"M1"}, {10}, {Num(1, 100)}, MaxCostCalls)

\* ---- the phases of calculate(): assemblies, rules that depend on rules --
\* two factories and a distributor that the first factory supplies
PhaseEntities ==
  <<[id |-> "M1", type |-> "manufacturing", country |-> "CN"],
    [id |-> "M2", type |-> "manufacturing", country |-> "MX"],
    [id |-> "D1", type |-> "distribution", country |-> "US"]>>

PhasePresets ==
  {[EmptyConfig EXCEPT
      !.entities = PhaseEntities,
      !.transferRoutes =
         <<[from |-> "M1", to |-> "D1", itemTypes |-> <<"finished-good">>,
            markupType |-> "cost-plus", markupValue |-> Num(1, 10)]>>,
      !.periodCosts = <<periodCost("A", "M1", 10), periodCost("B", "M1", 4),
                        periodCost("R", "M1", 5), periodCost("R", "M2", 6)>>]}

\* three overhead rules: P2 depends on P1, P3 on both
PhaseRules ==
  {[id |-> "P1", type |-> "percentage-of-base", baseRules |-> <<"RULE-002">>,
    percentage |-> Num(1, 10), dependencies |-> <<>>],
   [id |-> "P2", type |-> "percentage-of-base", baseRules |-> <<"RULE-002">>,
    percentage |-> Num(2, 10), dependencies |-> <<"P1">>],
   [id |-> "P3", type |-> "percentage-of-base", baseRules |-> <<"RULE-002">>,
    percentage |-> Num(3, 10), dependencies |-> <<"P1", "P2">>]}

\* the options of calculate(): none, or a products array
PhaseOptions ==
  {DefaultOptions} \cup
  {[period |-> DefaultPeriod, targetCurrency |-> DefaultCurrency,
    products |-> products]
     : products \in {<<"A">>, <<"B">>, <<"A", "B">>, <<"B", "A">>,
                     <<"A", "A">>}}

\* calculate(options)
CalculateOptions(optionSet, max) ==
  \E options \in optionSet :
    /\ IsObject(calculator)
    /\ calls < max
    /\ \E r \in {calculate(calculator, bomProcessor, ruleEngine, options)} :
         /\ calculator' = r.c
         /\ ret' = [op |-> "calculate", options |-> options, out |-> r.out]
    /\ calls' = calls + 1
    /\ UNCHANGED <<graph, costState, config, bomVars, ruleVars>>

PhaseNext ==
  \/ WriteBomEntry(PhaseProductOrder)
  \/ WriteBomComponent(PhaseItemIds, PlainKinds, MaxPhaseComponents)
  \/ WriteConfig(PhasePresets)
  \/ WriteTypedRule(PhaseRules)
  \/ NewCostCalculator
  \/ CalculateOptions(PhaseOptions, MaxPhaseCalls)

\* ---- the hops of a transfer path: a warehouse in the country of the -----
\* factory, hubs in Mexico and Germany, a distributor in the US
HopEntities ==
  <<[id |-> "M1", type |-> "manufacturing", country |-> "CN"],
    [id |-> "W", type |-> "warehouse", country |-> "CN"],
    [id |-> "X", type |-> "headquarters", country |-> "MX"],
    [id |-> "H", type |-> "headquarters", country |-> "DE"],
    [id |-> "D1", type |-> "distribution", country |-> "US"]>>

HopPresets ==
  {[EmptyConfig EXCEPT !.entities = HopEntities,
                       !.periodCosts = <<periodCost("A", "M1", 10)>>]}

HopPairs ==
  {<<"M1", "D1">>, <<"M1", "W">>, <<"W", "D1">>, <<"M1", "X">>,
   <<"X", "D1">>, <<"M1", "H">>, <<"H", "D1">>}

\* cost-plus 10 %, resale-minus 40 %, and a markup type that is neither
HopKinds ==
  TransferKinds \cup
  {[itemTypes |-> <<"finished-good">>, markupType |-> "revenue-percent",
    markupValue |-> Num(4, 100)]}

HopNext ==
  \/ WriteBomEntry(HopProductOrder)
  \/ WriteConfig(HopPresets)
  \/ WriteRoute(HopPairs, HopKinds, MaxHopRoutes)
  \/ NewCostCalculator
  \/ Calculate(MaxHopCalls)

\* ---- what-if analysis: scenarios that change the cost of A or of R ------
\* { type: 'cost', itemId, entityId, period, value }
costChange(itemId, value) ==
  [type |-> "cost", itemId |-> itemId, entityId |-> "M1",
   period |-> DefaultPeriod, value |-> Num(value, 1)]

\* the scenarios object, as the list of its entries [name, changes]
ScenarioLists ==
  LET high == [name |-> "high", changes |-> <<costChange("A", 20)>>]
      low == [name |-> "low", changes |-> <<costChange("R", 1)>>]
  IN {<<high>>, <<low>>, <<high, low>>, <<low, high>>}

WhatIfNext ==
  \/ WriteBomEntry(IncrProductOrder)
  \/ WriteBomComponent(IncrItemIds, PlainKinds, MaxWhatIfComponents)
  \/ WriteConfig(IncrPresets)
  \/ WriteTypedRule(CostRules)
  \/ NewCostCalculator
  \/ Calculate(MaxWhatIfCalls)
  \/ WhatIf(ScenarioLists, MaxWhatIfCalls)

\* ---- what-if analysis while keys are dirty ------------------------------
\* one scenario that changes the cost of A
DirtyScenarioLists ==
  {<<[name |-> "high", changes |-> <<costChange("A", 20)>>]>>}

DirtyNext ==
  \/ WriteBomEntry(IncrProductOrder)
  \/ WriteBomComponent(IncrItemIds, PlainKinds, MaxDirtyComponents)
  \/ WriteConfig(IncrPresets)
  \/ NewCostCalculator
  \/ Calculate(MaxDirtyCalls)
  \/ (Calculated /\ UpdateCost(IncrItemIds, {"M1"}, IncrValues, MaxDirtyCalls))
  \/ (Calculated /\ WhatIf(DirtyScenarioLists, MaxDirtyCalls))
  \/ (Calculated /\ RecalculateIncremental(MaxDirtyCalls))

\* ---- data gaps: a period cost or an exchange rate that is missing -------
\* a period cost in euros
euroCost(itemId, entityId, unit) ==
  [periodCost(itemId, entityId, unit) EXCEPT
     !.periods[DefaultPeriod].currency = "EUR"]

\* exchangeRates with one rate for one period
oneRate(period, currency, rate) ==
  [p \in {period} |-> [k \in {<<currency, "USD">>} |-> rate]]

\* A is priced in dollars, not priced at all, or priced in euros with the
\* rate of the period, the rate of the quarter before only, a table for the
\* period without the rate, or no rate at all
GapPresets ==
  {[EmptyConfig EXCEPT !.entities = IncrEntities, !.periodCosts = costs]
     : costs \in {<<periodCost("A", "M1", 10), periodCost("B", "M1", 4)>>,
                  <<periodCost("B", "M1", 4)>>}}
  \cup
  {[EmptyConfig EXCEPT !.entities = IncrEntities,
                       !.periodCosts = <<euroCost("A", "M1", 10)>>,
                       !.exchangeRates = rates]
     : rates \in {oneRate(DefaultPeriod, "EUR", Num(11, 10)),
                  oneRate("2024-Q3", "EUR", Num(12, 10)),
                  oneRate(DefaultPeriod, "GBP", Num(5, 4)),
                  EmptyMap}}

\* two overhead rules
GapRules == {r \in CostRules : r.type = "percentage-of-base"}

GapNext ==
  \/ WriteBomEntry(GapProductOrder)
  \/ WriteBomComponent(GapItemIds, PlainKinds, MaxGapComponents)
  \/ WriteConfig(GapPresets)
  \/ WriteTypedRule(GapRules)
  \/ NewCostCalculator
  \/ Calculate(MaxGapCalls)

(***************************************************************************)
(* Specifications                                                          *)
(***************************************************************************)
Init ==
  GraphInit /\ BomInit /\ RuleInit /\ CalcInit /\ StateInit /\ ConfigInit

\* calls on a stand-alone Graph
SpecGraph == Init /\ [][GraphNext]_vars

\* a bill of materials, the BOMProcessor built from it and calls on it
SpecBOM == Init /\ [][BomNext]_vars

\* the same with quantities and scrap rates that vary
SpecBOMQty == Init /\ [][BomQtyNext]_vars

\* a rule set, the RuleEngine built from it and calls on it
SpecRules == Init /\ [][RuleNext]_vars

\* a configuration of both, the objects built from it and calls on them
SpecCalc == Init /\ [][CalcNext]_vars

\* calls on a stand-alone CostState
SpecState == Init /\ [][StateNext]_vars

\* transfer pricing over the routes the caller wrote
SpecTransfer == Init /\ [][TransferNext]_vars

\* calculate(), then updateCost and recalculateIncremental
SpecIncr == Init /\ [][IncrNext]_vars

\* calculate() and resolveRoyaltyCycle over royalty and fee routes
SpecRoyalty == Init /\ [][RoyaltyNext]_vars

\* calculate(), recalculateIncremental() and resolveRoyaltyCycle() under
\* rule sets that may hold two rules of one type
SpecCost == Init /\ [][CostNext]_vars

\* calculate() and whatIf over one and two scenarios
SpecWhatIf == Init /\ [][WhatIfNext]_vars

\* transfer pricing over hops of every markup type and duty rate
SpecHops == Init /\ [][HopNext]_vars

\* calculate(), then updateCost, whatIf and recalculateIncremental
SpecDirty == Init /\ [][DirtyNext]_vars

\* calculate() over period costs and exchange rates that may be missing
SpecGaps == Init /\ [][GapNext]_vars

\* calculate() over product sets, assemblies and rules that depend on rules
SpecPhases == Init /\ [][PhaseNext]_vars

(***************************************************************************)
(* Properties of the stand-alone Graph                                     *)
(***************************************************************************)
\* every element of a returned cycle list is a closed walk of g: it starts
\* and ends at the same node and follows edges of g
IsCycleOf(c, g) ==
  /\ Len(c) >= 2
  /\ c[1] = c[Len(c)]
  /\ \A i \in 1..(Len(c) - 1) : <<c[i], c[i + 1]>> \in EdgePairs(g)

\* the simple paths of g that leave start, as node sequences, by hop count
RECURSIVE SimplePathsWithHops(_, _, _)
SimplePathsWithHops(g, start, h) ==
  IF h = 0 THEN {<<start>>}
  ELSE {Append(x[1], x[2]) : x \in
          {<<q, w>> \in SimplePathsWithHops(g, start, h - 1) \X Range(getNodes(g)) :
             /\ w \in Successors(EdgePairs(g), q[Len(q)])
             /\ w \notin Range(q)}}

\* the simple paths from start to end with at most maxHops edges
SimplePaths(g, start, end, maxHops) ==
  IF maxHops < 0 THEN {}
  ELSE {p \in UNION {SimplePathsWithHops(g, start, h) : h \in 0..maxHops} :
          p[Len(p)] = end}

\* the node sequence of a path returned by findAllPaths
PathNodes(path) == [i \in DOMAIN path |-> path[i].node]

\* C1: topologicalSort() of an acyclic graph (parallel edges included)
\* returns every node exactly once with u before v for every edge (u,v);
\* on a graph with a directed cycle (a self-loop included) it throws
C1_TopologicalSortCorrect ==
  ret.op = "topologicalSort" =>
    IF HasCycle(EdgePairs(graph))
    THEN ret.out.threw
    ELSE /\ ~ret.out.threw
         /\ IsTopologicalOrder(ret.out.val, graph)

\* a sort of an acyclic three-node graph that has a parallel edge
C1_Witness ==
  /\ ret.op = "topologicalSort"
  /\ ~ret.out.threw
  /\ Len(ret.out.val) = 3
  /\ \E u \in GraphNodes : \E i, j \in DOMAIN getNeighbors(graph, u) :
       i # j /\ getNeighbors(graph, u)[i].node = getNeighbors(graph, u)[j].node

\* C2: detectCycles() returns at least one cycle, each of them a non-empty
\* closed walk of the graph, exactly when the graph has a directed cycle
\* (self-loop included); it returns the empty list for every acyclic graph
C2_DetectCyclesCorrect ==
  ret.op = "detectCycles" =>
    /\ HasCycle(EdgePairs(graph)) <=> Len(ret.out.val) > 0
    /\ \A i \in DOMAIN ret.out.val : IsCycleOf(ret.out.val[i], graph)

\* a cycle that does not pass through the first node of the graph is found
C2_Witness ==
  /\ ret.op = "detectCycles"
  /\ Len(ret.out.val) > 0
  /\ getNodes(graph)[1] \notin Range(ret.out.val[1])

\* an acyclic graph with a node reachable along two paths yields no cycle
C2_WitnessDiamond ==
  /\ ret.op = "detectCycles"
  /\ Len(ret.out.val) = 0
  /\ \E u, v, w \in GraphNodes :
       {<<u, v>>, <<v, w>>, <<u, w>>} \subseteq EdgePairs(graph)

\* C3: findAllPaths(start, end, maxDepth) returns exactly the simple paths
\* from start to end that have at most maxDepth hops
C3_FindAllPathsUpToMaxDepthHops ==
  ret.op = "findAllPaths" =>
    {PathNodes(ret.out.val[i]) : i \in DOMAIN ret.out.val}
      = SimplePaths(graph, ret.start, ret.end, ret.maxDepth)

\* what findAllPaths returns: the simple paths with fewer than maxDepth hops
C3_FindAllPathsBelowMaxDepthHops ==
  ret.op = "findAllPaths" =>
    {PathNodes(ret.out.val[i]) : i \in DOMAIN ret.out.val}
      = SimplePaths(graph, ret.start, ret.end, ret.maxDepth - 1)

\* a search whose bound equals the hop count of an existing simple path
C3_Witness ==
  /\ ret.op = "findAllPaths"
  /\ ret.maxDepth >= 1
  /\ \E p \in SimplePaths(graph, ret.start, ret.end, ret.maxDepth) :
       Len(p) = ret.maxDepth + 1

(***************************************************************************)
(* Properties of the BOMProcessor                                          *)
(***************************************************************************)
\* the entries of the billOfMaterials array and their components
BomParts ==
  {<<e, i>> \in (1..Len(billOfMaterials)) \X (1..MaxComponents + MaxQtyComponents) :
     i \in DOMAIN billOfMaterials[e].components}

\* itemId has no BOM entry or an empty component list
IsLeaf(bom, itemId) ==
  ~mapHas(bom, itemId) \/ Len(bom[itemId].components) = 0

\* the paths from productId down to a leaf; a path is the sequence of the
\* components <<product, index>> it goes through
RECURSIVE PathsFrom(_, _)
PathsFrom(bom, productId) ==
  IF IsLeaf(bom, productId) THEN {<<>>}
  ELSE UNION {{<<<<productId, i>>>> \o q :
                 q \in PathsFrom(bom, bom[productId].components[i].itemId)} :
              i \in DOMAIN bom[productId].components}

\* the item a path from productId ends at
PathEnd(bom, productId, path) ==
  IF path = <<>> THEN productId
  ELSE bom[path[Len(path)][1]].components[path[Len(path)][2]].itemId

\* the product of quantity / (1 - scrapRate) along a path
RECURSIVE PathFactor(_, _)
PathFactor(bom, path) ==
  IF path = <<>> THEN One
  ELSE LET c == bom[path[1][1]].components[path[1][2]]
       IN mul(div(c.quantity, sub(One, orZero(c.scrapRate))),
              PathFactor(bom, Tail(path)))

\* the sum of f over the paths in S
RECURSIVE SumOverPaths(_, _, _)
SumOverPaths(bom, S, multiplier) ==
  IF S = {} THEN Zero
  ELSE LET p == CHOOSE x \in S : TRUE
       IN add(mul(multiplier, PathFactor(bom, p)),
              SumOverPaths(bom, S \ {p}, multiplier))

\* C5: getExplosionOrder() lists every node of the BOM graph exactly once
\* and every component of every BOM entry before the entry's product
C5_ExplosionOrderLeavesFirst ==
  ret.op = "getExplosionOrder" =>
    /\ ~ret.out.threw
    /\ IsPermutationOf(ret.out.val, Range(getNodes(bomProcessor.bomGraph)))
    /\ Range(ret.out.val) =
         {billOfMaterials[e].productId : e \in DOMAIN billOfMaterials}
           \cup {billOfMaterials[x[1]].components[x[2]].itemId : x \in BomParts}
    /\ \A x \in BomParts :
         Before(ret.out.val, billOfMaterials[x[1]].components[x[2]].itemId,
                billOfMaterials[x[1]].productId)

\* an order of a three-level BOM: an entry listed first whose component has
\* a component itself
C5_Witness ==
  /\ ret.op = "getExplosionOrder"
  /\ \E x, y \in BomParts :
       /\ x[1] = 1
       /\ billOfMaterials[x[1]].components[x[2]].itemId
            = billOfMaterials[y[1]].productId

\* C6: explodeBOM is idempotent and memoized: a call that repeats the
\* previous call's productId returns an equal result and runs no component
\* loop, and no product ever has its component list expanded twice
C6_ExplodeMemoized ==
  [][/\ (ret.op = "explodeBOM" /\ ret'.op = "explodeBOM"
           /\ ret'.productId = ret.productId)
          => (ret'.out = ret.out /\ expansions' = expansions)
     /\ \A p \in ItemIds : expansions'[p] <= 1]_vars

\* a product with components that is a component of two products, all
\* three of them exploded
C6_Witness ==
  /\ ret.op = "explodeBOM"
  /\ \E x, y \in BomParts :
       /\ x[1] # y[1]
       /\ billOfMaterials[x[1]].components[x[2]].itemId
            = billOfMaterials[y[1]].components[y[2]].itemId
       /\ expansions[billOfMaterials[x[1]].productId] = 1
       /\ expansions[billOfMaterials[y[1]].productId] = 1
       /\ expansions[billOfMaterials[x[1]].components[x[2]].itemId] = 1

\* C7: once a BOMProcessor exists, no component of its BOM has a scrap rate
\* of 1 or more (such a BOM is rejected by the constructor)
C7_ScrapRateValidated ==
  IsObject(bomProcessor) =>
    \A x \in BomParts :
      less(orZero(billOfMaterials[x[1]].components[x[2]].scrapRate), One)

\* C8: getFlattenedMaterials(productId, multiplier) returns exactly the
\* leaves reachable from productId, each with the sum over the paths that
\* end at it of multiplier times the product of quantity / (1 - scrapRate)
C8_FlattenedMaterialsSumOverPaths ==
  ret.op = "getFlattenedMaterials" =>
    LET bom == bomProcessor.bom
        paths == PathsFrom(bom, ret.productId)
        materials == ret.out.val
    IN /\ DOMAIN materials = {PathEnd(bom, ret.productId, p) : p \in paths}
       /\ \A leaf \in DOMAIN materials :
            /\ IsLeaf(bom, leaf)
            /\ materials[leaf] =
                 SumOverPaths(bom,
                   {p \in paths : PathEnd(bom, ret.productId, p) = leaf},
                   ret.multiplier)

\* a leaf reached along two paths, one of them with a scrap rate between
\* 0 and 1, flattened with a multiplier other than 1
C8_Witness ==
  /\ ret.op = "getFlattenedMaterials"
  /\ ret.multiplier # One
  /\ \E leaf \in DOMAIN ret.out.val :
       /\ Cardinality({p \in PathsFrom(bomProcessor.bom, ret.productId) :
                        PathEnd(bomProcessor.bom, ret.productId, p) = leaf}) >= 2
       /\ ret.out.val[leaf].d > 0
       /\ \E p \in PathsFrom(bomProcessor.bom, ret.productId) :
            /\ PathEnd(bomProcessor.bom, ret.productId, p) = leaf
            /\ Len(p) = 2
            /\ PathFactor(bomProcessor.bom, p) = Num(4, 1)

(***************************************************************************)
(* Properties of the RuleEngine                                            *)
(***************************************************************************)
\* the rules of the allocationRules array and their dependencies
RuleParts ==
  {<<r, j>> \in (1..Len(allocationRules)) \X (1..MaxDependencies + 1) :
     j \in DOMAIN allocationRules[r].dependencies}

DefinedRuleIds == {allocationRules[r].id : r \in DOMAIN allocationRules}

\* the number of positions of s that hold x
Occurrences(s, x) == Cardinality({i \in DOMAIN s : s[i] = x})

\* the concatenation of the sequences of a sequence
RECURSIVE Flatten(_)
Flatten(ss) == IF ss = <<>> THEN <<>> ELSE Head(ss) \o Flatten(Tail(ss))

\* the index of the wave that holds ruleId, 0 if none does
WaveOf(groups, ruleId) ==
  IF \E w \in DOMAIN groups : ruleId \in Range(groups[w])
  THEN CHOOSE w \in DOMAIN groups : ruleId \in Range(groups[w])
  ELSE 0

\* C9: in getExecutionOrder() every rule appears exactly once and every
\* dependency of a rule appears before the rule
C9_ExecutionOrderDependenciesFirst ==
  ret.op = "getExecutionOrder" =>
    /\ \A id \in DefinedRuleIds : Occurrences(ret.out.val, id) = 1
    /\ \A x \in RuleParts :
         Before(ret.out.val, allocationRules[x[1]].dependencies[x[2]],
                allocationRules[x[1]].id)

\* the order of a rule set in which a rule listed first depends on a rule
\* listed later, which has a dependency of its own
C9_Witness ==
  /\ ret.op = "getExecutionOrder"
  /\ \E x, y \in RuleParts :
       /\ x[1] = 1
       /\ y[1] > 1
       /\ allocationRules[x[1]].dependencies[x[2]] = allocationRules[y[1]].id
       /\ allocationRules[y[1]].dependencies[y[2]] \in DefinedRuleIds

\* C10: the waves getParallelGroups() returns, concatenated in order, are a
\* topological order of the rules (every rule once, dependencies first), and
\* every dependency of a rule lies in a strictly earlier wave than the rule
C10_ParallelGroupsRespectDependencies ==
  (ret.op = "getParallelGroups" /\ ~ret.out.threw) =>
    LET groups == ret.out.val
        flat == Flatten(groups)
    IN /\ Range(flat) = DefinedRuleIds
       /\ \A id \in DefinedRuleIds : Occurrences(flat, id) = 1
       /\ \A x \in RuleParts :
            LET dep == allocationRules[x[1]].dependencies[x[2]]
                id == allocationRules[x[1]].id
            IN /\ Before(flat, dep, id)
               /\ WaveOf(groups, dep) >= 1
               /\ WaveOf(groups, dep) < WaveOf(groups, id)

\* the groups of a diamond: a wave of two rules between two waves of one
C10_Witness ==
  /\ ret.op = "getParallelGroups"
  /\ ~ret.out.threw
  /\ Len(ret.out.val) = 3
  /\ Len(ret.out.val[1]) = 1
  /\ Len(ret.out.val[2]) = 2
  /\ Len(ret.out.val[3]) = 1
  /\ Cardinality(RuleParts) = 4

(***************************************************************************)
(* Properties of construction                                              *)
(***************************************************************************)
\* the edges product -> component of the billOfMaterials array
BomEdges ==
  {<<billOfMaterials[x[1]].productId,
     billOfMaterials[x[1]].components[x[2]].itemId>> : x \in BomParts}

\* the edges dependency -> rule of the allocationRules array
RuleEdges ==
  {<<allocationRules[x[1]].dependencies[x[2]], allocationRules[x[1]].id>> :
     x \in RuleParts}

BomCalls == {"getExplosionOrder", "explodeBOM", "getFlattenedMaterials"}

RuleCalls == {"getExecutionOrder", "getParallelGroups"}

\* C4: a cyclic configuration is rejected at construction: with a cycle in
\* the BOM the BOMProcessor constructor throws and no BOMProcessor exists,
\* with a cycle in the rule dependencies the same holds of the RuleEngine,
\* with either of the CostCalculator (and of its map of cost records), so
\* no explode or ordering call runs on such a configuration
C4_CyclicConfigurationRejected ==
  /\ HasCycle(BomEdges) =>
       /\ ~IsObject(bomProcessor)
       /\ ret.op \notin BomCalls
       /\ ret.op = "new BOMProcessor" => ret.out.threw
  /\ HasCycle(RuleEdges) =>
       /\ ~IsObject(ruleEngine)
       /\ ret.op \notin RuleCalls
       /\ ret.op = "new RuleEngine" => ret.out.threw
  /\ (HasCycle(BomEdges) \/ HasCycle(RuleEdges)) =>
       /\ ~IsObject(calculator)
       /\ "costState" \notin DOMAIN calculator
       /\ ret.op = "new CostCalculator" => ret.out.threw

\* a CostCalculator constructor that threw on a rule cycle over an acyclic
\* BOM with a component
C4_Witness ==
  /\ ret.op = "new CostCalculator"
  /\ ret.out.threw
  /\ ~HasCycle(BomEdges)
  /\ BomEdges # {}
  /\ HasCycle(RuleEdges)
  /\ \A e \in RuleEdges : e[1] # e[2]

(***************************************************************************)
(* Properties of the stand-alone CostState                                 *)
(***************************************************************************)
\* the pairs (source, dependent) of the dependency map
DependencyEdges(cs) ==
  UNION {{<<k, d>> : d \in Range(cs.dependencies[k])} :
           k \in DOMAIN cs.dependencies}

\* C13: markDirty(k) on an acyclic dependency map returns, and the dirty set
\* after it is the dirty set before it united with k and with every key
\* reachable from k through registered dependencies, nothing else
C13_MarkDirtyClosure ==
  [][(ret'.op = "markDirty" /\ ~HasCycle(DependencyEdges(costState)))
       => /\ ~ret'.out.threw
          /\ Range(costState'.dirty) =
               Range(costState.dirty) \cup {ret'.key}
                 \cup Descendants(DependencyEdges(costState), ret'.key)
          /\ costState'.dependencies = costState.dependencies]_vars

\* markDirty("A") with A -> B -> C registered made exactly {A, B, C} dirty
C13_Witness ==
  /\ ret.op = "markDirty"
  /\ ret.key = "A"
  /\ ~ret.out.threw
  /\ DependencyEdges(costState) = {<<"A", "B">>, <<"B", "C">>}
  /\ Range(costState.dirty) = {"A", "B", "C"}

(***************************************************************************)
(* Properties of transfer pricing                                          *)
(***************************************************************************)
\* the factor of one hop: the markup, then the duty when the hop crosses a
\* border; entity ids are those of the configuration
CountryOf(entityId) ==
  (CHOOSE e \in Range(config.entities) : e.id = entityId).country

HopFactor(hop) ==
  LET markup == IF hop.markupType = "cost-plus"
                THEN add(One, hop.markupValue)
                ELSE IF hop.markupType = "resale-minus"
                THEN add(One, div(hop.markupValue, Num(2, 1)))
                ELSE One
      duty == IF CountryOf(hop.from) = CountryOf(hop.to) THEN Zero
              ELSE IF CountryOf(hop.to) = "US" THEN Num(25, 1000)
              ELSE IF CountryOf(hop.to) = "DE" THEN Num(4, 100)
              ELSE Num(3, 100)
  IN mul(markup, add(One, duty))

RECURSIVE HopsCost(_, _)
\* the final cost of a walk over hops that starts with cost
HopsCost(cost, hops) ==
  IF hops = <<>> THEN cost
  ELSE HopsCost(mul(cost, HopFactor(Head(hops))), Tail(hops))

\* the sequences of distinct routes that lead from one entity to another
\* without meeting an entity twice
RouteWalks(from, to) ==
  LET routes == config.transferRoutes
      n == Len(routes)
      seqs == UNION {[1..k -> 1..n] : k \in 1..n}
  IN {[i \in DOMAIN s |-> routes[s[i]]] : s \in
        {s \in seqs :
           /\ routes[s[1]].from = from
           /\ routes[s[Len(s)]].to = to
           /\ \A i \in 1..(Len(s) - 1) : routes[s[i]].to = routes[s[i + 1]].from
           /\ \A i, j \in DOMAIN s : i # j => routes[s[i]].to # routes[s[j]].to
           /\ \A i \in DOMAIN s : routes[s[i]].to # from}}

EntityIdsOfType(type) ==
  {e.id : e \in {x \in Range(config.entities) : x.type = type}}

\* the totalCost stored for a product in an entity
StoredTotal(productId, entityId) ==
  getCost(calculator.costState, productId, entityId, DefaultPeriod).totalCost

HasRecord(productId, entityId) ==
  getCost(calculator.costState, productId, entityId, DefaultPeriod) # Undefined

\* the hops of a path returned by findAllPaths
HopsOf(path) ==
  [i \in 1..(Len(path) - 1) |->
     [from |-> path[i].node, to |-> path[i + 1].node,
      markupType |-> path[i + 1].edge.meta.markupType,
      markupValue |-> path[i + 1].edge.meta.markupValue]]

RECURSIVE Candidates(_, _, _)
\* the paths to destEntityId in enumeration order: manufacturing entities
\* in insertion order, the paths of each in the order of findAllPaths
Candidates(productId, destEntityId, i) ==
  LET entities == getManufacturingEntities(calculator)
      paths == findTransferPaths(calculator, entities[i].id, destEntityId)
  IN IF i > Len(entities) THEN <<>>
     ELSE (IF HasRecord(productId, entities[i].id)
           THEN [k \in DOMAIN paths |->
                   [source |-> entities[i].id,
                    nodes |-> [x \in DOMAIN paths[k] |-> paths[k][x].node],
                    hops |-> HopsOf(paths[k]),
                    cost |-> HopsCost(StoredTotal(productId, entities[i].id),
                                      HopsOf(paths[k]))]]
           ELSE <<>>)
          \o Candidates(productId, destEntityId, i + 1)

\* the record stored for the destination is the candidate cand
RecordsCandidate(productId, destEntityId, cand) ==
  LET record == getCost(calculator.costState, productId, destEntityId,
                        DefaultPeriod)
  IN /\ record.totalCost = cand.cost
     /\ record.sourceEntity = cand.source
     /\ [i \in DOMAIN record.transferPath |-> record.transferPath[i].entity]
          = cand.nodes
     /\ [i \in 1..Len(cand.hops) |-> record.transferPath[i + 1].markup]
          = [i \in 1..Len(cand.hops) |-> cand.hops[i].markupValue]

C12_MissingPathWarns ==
  ret.op = "calculate" =>
    \A productId \in Range(getAllProducts(bomProcessor)),
       destEntityId \in EntityIdsOfType("distribution") :
      (\A m \in EntityIdsOfType("manufacturing") :
         HasRecord(productId, m) => RouteWalks(m, destEntityId) = {})
        => /\ ~ret.out.threw
           /\ ~HasRecord(productId, destEntityId)
           /\ Len(ret.out.val.warnings) > 0

\* what of C12 the code does: the call returns and the record stays unset
C12_MissingPathLeavesRecordUnset ==
  ret.op = "calculate" =>
    \A productId \in Range(getAllProducts(bomProcessor)),
       destEntityId \in EntityIdsOfType("distribution") :
      (\A m \in EntityIdsOfType("manufacturing") :
         HasRecord(productId, m) => RouteWalks(m, destEntityId) = {})
        => /\ ~ret.out.threw
           /\ ~HasRecord(productId, destEntityId)

(***************************************************************************)
(* Properties of incremental recalculation                                 *)
(***************************************************************************)
\* the keys a markDirty(key) of the calculator's CostState marks
MarkedBy(key) ==
  {key} \cup Descendants(DependencyEdges(calculator.costState), key)

\* C14: a drain of the dirty set returns and clears it: a key that
\* updateCost returned is not returned by the next updateCost unless that
\* call marked it again, and recalculateIncremental leaves no key dirty
C14_DrainClearsDirtySet ==
  [][/\ (ret.op = "updateCost" /\ ~ret.out.threw
           /\ ret'.op = "updateCost" /\ ~ret'.out.threw)
          => \A key \in Range(ret.out.val) \cap Range(ret'.out.val) :
               key \in MarkedBy(getCostKey(ret'.itemId, ret'.entityId,
                                           DefaultPeriod))
     /\ (ret'.op = "recalculateIncremental" /\ ~ret'.out.threw)
          => calculator'.costState.dirty = <<>>]_vars

\* what of C14 the code does: recalculateIncremental drains the dirty set,
\* and the updateCost that follows it returns the key it marked only
C14_RecalculateIncrementalDrains ==
  [][/\ (ret'.op = "recalculateIncremental" /\ ~ret'.out.threw)
          => /\ calculator'.costState.dirty = <<>>
             /\ ret'.out.val.recalculated = Len(calculator.costState.dirty)
     /\ (ret.op = "recalculateIncremental" /\ ~ret.out.threw
           /\ ret'.op = "updateCost" /\ ~ret'.out.threw)
          => Range(ret'.out.val) =
               MarkedBy(getCostKey(ret'.itemId, ret'.entityId, DefaultPeriod))
    ]_vars

\* C15: after calculate(), updateCost on a component returns the key of
\* every product with a cost record that contains the component, directly
\* or through other products
C15_UpdateMarksContainingProducts ==
  (ret.op = "updateCost" /\ ~ret.out.threw) =>
    \A productId \in Range(getAllProducts(bomProcessor)) :
      (/\ ret.itemId \in Descendants(BomEdges, productId)
       /\ HasRecord(productId, ret.entityId))
        => getCostKey(productId, ret.entityId, DefaultPeriod)
             \in Range(ret.out.val)

\* what the code does: calculate() registers no dependency
C15_NoDependencyRegistered ==
  IsObject(calculator) => DOMAIN calculator.costState.dependencies = {}

\* the calculator after a calculation from scratch on its present inputs
FullRecalculation ==
  calculate([calculator EXCEPT !.costState = NewCostState],
            bomProcessor, ruleEngine, DefaultOptions).c

\* C16: after recalculateIncremental() every cost a full recalculation on
\* the updated inputs stores is stored with the same total
C16_IncrementalEqualsFull ==
  (ret.op = "recalculateIncremental" /\ ~ret.out.threw) =>
    \A productId \in Range(getAllProducts(bomProcessor)),
       e \in DOMAIN config.entities :
      LET entityId == config.entities[e].id
          full == getCost(FullRecalculation.costState, productId, entityId,
                          DefaultPeriod)
      IN full # Undefined =>
           /\ HasRecord(productId, entityId)
           /\ StoredTotal(productId, entityId) = full.totalCost

(***************************************************************************)
(* Properties of royalty resolution                                        *)
(***************************************************************************)
\* every id of the execution order is the id of a rule
DependenciesDefined ==
  Range(getExecutionOrder(ruleEngine)) \subseteq DOMAIN ruleEngine.rules

C17_ResolveReturnsOnDefinedRules ==
  (ret.op = "resolveRoyaltyCycle" /\ DependenciesDefined) =>
    /\ ~ret.out.threw
    /\ ret.out.val.iterations <= ret.maxIterations
    /\ (ret.out.val.iterations = ret.maxIterations /\ lt(ret.tolerance, Zero))
         => ~ret.out.val.converged

\* resolveRoyaltyCycle was called with the default maxIterations and
\* tolerance, right after calculate(), on a product with a cost record in
\* an entity that a royalty route leads to, with a rule set that holds a
\* royalty rule and whose dependencies are all rules
RoyaltyCase ==
  /\ ret.op = "calculate"
  /\ ~ret.out.threw
  /\ ret'.op = "resolveRoyaltyCycle"
  /\ ret'.maxIterations = 10
  /\ ret'.tolerance = Num(1, 100)
  /\ HasRecord(ret'.productId, ret'.entityId)
  /\ routesTo(calculator, ret'.entityId, "royalty") # <<>>
  /\ \E id \in DOMAIN ruleEngine.rules :
       fieldIs(ruleEngine.rules[id], "transferType", "royalty")
  /\ DependenciesDefined

\* a second resolveRoyaltyCycle on the state the first one left returns a
\* finalCost within the tolerance of the first finalCost
RerunIsStable ==
  LET again == resolveRoyaltyCycle(calculator', bomProcessor, ruleEngine,
                 ret'.productId, ret'.entityId, DefaultPeriod,
                 DefaultCurrency, ret'.maxIterations, ret'.tolerance)
  IN /\ ~again.out.threw
     /\ le(absNum(sub(again.out.val.finalCost, ret'.out.val.finalCost)),
           ret'.tolerance)

ItemizedSum(cost) ==
  add(cost.directMaterial,
  add(cost.directLabor,
  add(cost.scrapAdjustment,
  add(cost.laborBurden,
  add(cost.factoryOverhead,
  add(cost.rndAmortization,
  add(cost.royalty,
  add(cost.managementFee,
  add(cost.interCompanyMarkup, cost.customsDuties)))))))))

\* C19: after every call of calculate(), recalculateIncremental() and
\* resolveRoyaltyCycle(), the totalCost of every stored cost record is the
\* sum of its itemized fields, also when two rules of one type were applied
C19_TotalIsSumOfFields ==
  IsObject(calculator) =>
    \A key \in DOMAIN calculator.costState.costs :
      calculator.costState.costs[key].totalCost
        = ItemizedSum(calculator.costState.costs[key])

\* what of C19 the code does: the same for rule sets in which no two rules
\* have the same type
C19_TotalIsSumWithOneRulePerType ==
  (/\ IsObject(calculator)
   /\ \A i, j \in DOMAIN allocationRules :
        allocationRules[i].type = allocationRules[j].type => i = j)
    => \A key \in DOMAIN calculator.costState.costs :
         calculator.costState.costs[key].totalCost
           = ItemizedSum(calculator.costState.costs[key])

(***************************************************************************)
(* Properties of what-if analysis                                          *)
(***************************************************************************)
\* whatIf returned
WhatIfReturned == ret'.op = "whatIf" /\ ~ret'.out.threw

\* the cost records, rule outputs and period costs are what they were
WhatIfRestores ==
  /\ calculator'.costState.costs = calculator.costState.costs
  /\ calculator'.costState.ruleOutputs = calculator.costState.ruleOutputs
  /\ calculator'.periodCosts = calculator.periodCosts

\* the result of the scenario when whatIf is called with it alone
ResultAlone(scenario) ==
  whatIf(calculator, bomProcessor, ruleEngine, <<scenario>>,
         DefaultOptions).out.val[scenario.name]

\* the cost figures of a scenario result, without the contribution lists
CostFigures(result) ==
  [productId \in DOMAIN result.costs |->
     [entityId \in DOMAIN result.costs[productId] |->
        [f \in DOMAIN result.costs[productId][entityId] \ {"contributions"} |->
           result.costs[productId][entityId][f]]]]

\* C20: whatIf is isolated: when it returns, every cost record, rule
\* output and period cost of the calculator is what it was before the
\* call, and the result of each scenario is the result of running that
\* scenario alone
C20_WhatIfIsolated ==
  [][WhatIfReturned =>
       /\ WhatIfRestores
       /\ \A i \in DOMAIN ret'.scenarios :
            ret'.out.val[ret'.scenarios[i].name]
              = ResultAlone(ret'.scenarios[i])]_vars

\* what of C20 the code does: the state is restored and the cost figures
\* of each scenario are those of the scenario alone
C20_WhatIfIsolatesCostFigures ==
  [][WhatIfReturned =>
       /\ WhatIfRestores
       /\ \A i \in DOMAIN ret'.scenarios :
            CostFigures(ret'.out.val[ret'.scenarios[i].name])
              = CostFigures(ResultAlone(ret'.scenarios[i]))]_vars

(***************************************************************************)
(* Properties of the waves of getParallelGroups                            *)
(***************************************************************************)
\* the dependencies the allocationRules array gives the rule id
DependenciesOf(id) ==
  UNION {Range(allocationRules[r].dependencies) :
           r \in {x \in DOMAIN allocationRules : allocationRules[x].id = id}}

\* the rules of the waves before wave k
InEarlierWaves(groups, k) ==
  UNION {Range(groups[w]) : w \in {x \in DOMAIN groups : x < k}}

\* the rules that are ready for wave k: in no earlier wave, every dependency
\* in an earlier wave
ReadyFor(groups, k) ==
  {id \in DefinedRuleIds :
     /\ id \notin InEarlierWaves(groups, k)
     /\ DependenciesOf(id) \subseteq InEarlierWaves(groups, k)}

\* RULE-001 <- {RULE-002, RULE-003} <- RULE-004, in the order of declaration
DiamondRules ==
  <<[id |-> "R1", dependencies |-> <<>>],
    [id |-> "R2", dependencies |-> <<"R1">>],
    [id |-> "R3", dependencies |-> <<"R1">>],
    [id |-> "R4", dependencies |-> <<"R2", "R3">>]>>

\* C22: the waves are maximal: wave k of getParallelGroups() holds exactly
\* the rules that are in no earlier wave and whose dependencies all lie in
\* earlier waves, wherever the rules stand in the array; the groups of the
\* diamond R1 <- {R2, R3} <- R4 are [[R1], [R2, R3], [R4]]
C22_WavesAreMaximal ==
  (ret.op = "getParallelGroups" /\ ~ret.out.threw) =>
    /\ \A k \in DOMAIN ret.out.val :
         Range(ret.out.val[k]) = ReadyFor(ret.out.val, k)
    /\ allocationRules = DiamondRules
         => ret.out.val = <<<<"R1">>, <<"R2", "R3">>, <<"R4">>>>

\* the groups of a rule set in which a rule listed later is in an earlier
\* wave than a rule listed before it, and some wave holds two rules
C22_Witness ==
  /\ ret.op = "getParallelGroups"
  /\ ~ret.out.threw
  /\ \E k \in DOMAIN ret.out.val : Len(ret.out.val[k]) >= 2
  /\ \E r, s \in DOMAIN allocationRules :
       /\ r < s
       /\ WaveOf(ret.out.val, allocationRules[s].id) >= 1
       /\ WaveOf(ret.out.val, allocationRules[s].id)
            < WaveOf(ret.out.val, allocationRules[r].id)

\* every dependency of every rule of the array is the id of a rule of it
AllDependenciesDefined ==
  \A x \in RuleParts :
    allocationRules[x[1]].dependencies[x[2]] \in DefinedRuleIds

\* C23: for a rule set whose dependencies all name defined rules,
\* getParallelGroups() returns a partition of the execution order: every
\* rule id is in exactly one wave, no wave is empty, and the waves
\* concatenated in order are the sequence getExecutionOrder() returns
C23_WavesPartitionExecutionOrder ==
  (ret.op = "getParallelGroups" /\ AllDependenciesDefined) =>
    /\ ~ret.out.threw
    /\ \A id \in DefinedRuleIds :
         Cardinality({k \in DOMAIN ret.out.val :
                        id \in Range(ret.out.val[k])}) = 1
    /\ \A k \in DOMAIN ret.out.val : Len(ret.out.val[k]) > 0
    /\ Flatten(ret.out.val) = getExecutionOrder(ruleEngine)

\* the waves of a rule set in which a rule of the second wave is listed
\* after a rule of the third: the execution order is not the array order
C23_Witness ==
  /\ ret.op = "getParallelGroups"
  /\ AllDependenciesDefined
  /\ ~ret.out.threw
  /\ Len(ret.out.val) >= 3
  /\ \E r, s \in DOMAIN allocationRules :
       /\ r < s
       /\ WaveOf(ret.out.val, allocationRules[s].id) = 2
       /\ WaveOf(ret.out.val, allocationRules[r].id) = 3

(***************************************************************************)
(* Properties of the waves as units of parallel work                       *)
(***************************************************************************)
\* the workers of a wave: one per rule of the wave, product and
\* manufacturing entity, as executeRule pairs them
WorkersOf(wave) ==
  Range(wave) \X Range(getAllProducts(bomProcessor))
              \X {e.id : e \in Range(getManufacturingEntities(calculator))}

\* the cost records the worker w writes
WorkerWrites(w) ==
  applyRuleWrites(calculator, getRule(ruleEngine, w[1]), w[2], w[3],
                  DefaultPeriod)

\* C24: no two workers of one wave of the parallelGroups calculate()
\* returns write the same (product, entity, period) cost record
C24_NoWriteContentionInWave ==
  (ret.op = "calculate" /\ ~ret.out.threw) =>
    \A k \in DOMAIN ret.out.val.parallelGroups :
      \A w1, w2 \in WorkersOf(ret.out.val.parallelGroups[k]) :
        w1 # w2 => WorkerWrites(w1) \cap WorkerWrites(w2) = {}

\* what the code does for C24: two workers of a wave that write the same
\* record differ in the rule only
C24_ContentionOnlyAcrossRules ==
  (ret.op = "calculate" /\ ~ret.out.threw) =>
    \A k \in DOMAIN ret.out.val.parallelGroups :
      \A w1, w2 \in WorkersOf(ret.out.val.parallelGroups[k]) :
        WorkerWrites(w1) \cap WorkerWrites(w2) # {}
          => (w1[2] = w2[2] /\ w1[3] = w2[3])

(***************************************************************************)
(* The order of the work of calculate()                                    *)
(***************************************************************************)
\* the calls of Phase 1, in the order of its two loops: calculateBaseCost
\* per product of explosionOrder (outside) and manufacturing entity (inside)
phase1Steps(c, explosionOrder) ==
  Flatten([i \in DOMAIN explosionOrder |->
             [j \in DOMAIN getManufacturingEntities(c) |->
                [ruleId |-> "BASE", productId |-> explosionOrder[i],
                 entityId |-> getManufacturingEntities(c)[j].id]]])

\* the calls of applyRule that executeRule makes for a rule: products
\* outside, manufacturing entities inside; none for an id that is no rule
executeRuleSteps(c, re, ruleId, productIds) ==
  IF getRule(re, ruleId) = Undefined THEN <<>>
  ELSE Flatten([i \in DOMAIN productIds |->
                  [j \in DOMAIN getManufacturingEntities(c) |->
                     [ruleId |-> ruleId, productId |-> productIds[i],
                      entityId |-> getManufacturingEntities(c)[j].id]]])

\* the calls of Phase 2: executeRule per id of getExecutionOrder()
phase2Steps(c, re, executionOrder, productIds) ==
  Flatten([i \in DOMAIN executionOrder |->
             executeRuleSteps(c, re, executionOrder[i], productIds)])

\* the calls of Phase 3: calculateTransferPrice per product (outside) and
\* distribution entity (inside)
phase3Steps(c, productIds) ==
  Flatten([i \in DOMAIN productIds |->
             [j \in DOMAIN getDistributionEntities(c) |->
                [ruleId |-> "TRANSFER", productId |-> productIds[i],
                 entityId |-> getDistributionEntities(c)[j].id]]])

\* the calls the first three phases of calculate(options) make, in order
calculateSteps(c, bp, re, options) ==
  LET productIds == IF "products" \in DOMAIN options THEN options.products
                    ELSE getAllProducts(bp)
  IN phase1Steps(c, SelectSeq(getExplosionOrder(bp).val,
                              LAMBDA p : p \in Range(productIds)))
       \o phase2Steps(c, re, getExecutionOrder(re), productIds)
       \o phase3Steps(c, productIds)

\* the steps of the calculate() that returned
StepsOfCall ==
  calculateSteps(calculator, bomProcessor, ruleEngine, ret.options)

\* the components of productId that are products of the set handed to
\* calculate()
ComponentsInSet(productId) ==
  IF getProduct(bomProcessor, productId) = Undefined THEN {}
  ELSE {getProduct(bomProcessor, productId).components[k].itemId :
          k \in DOMAIN getProduct(bomProcessor, productId).components}
       \cap {s.productId :
               s \in {x \in Range(StepsOfCall) : x.ruleId = "BASE"}}

\* the manufacturing entities whose cost of a product calculateTransferPrice
\* reads for destEntityId: those with a path to it
SourcesRead(destEntityId) ==
  {e.id : e \in {x \in Range(getManufacturingEntities(calculator)) :
                   findTransferPaths(calculator, x.id, destEntityId) # <<>>}}

\* the contributions of a record follow the order of the steps: of two
\* entries, the step of the earlier one comes first
ContributionsFollow(steps) ==
  \A key \in DOMAIN calculator.contributions :
    \A a, b \in DOMAIN calculator.contributions[key] :
      a < b =>
        \E i, j \in DOMAIN steps :
          /\ i < j
          /\ steps[i] = [ruleId |-> calculator.contributions[key][a].ruleId,
                         productId |-> key[1], entityId |-> key[2]]
          /\ steps[j] = [ruleId |-> calculator.contributions[key][b].ruleId,
                         productId |-> key[1], entityId |-> key[2]]

\* C25: in a calculate() that returns, the base cost of a product is
\* computed after that of each of its components in the set, a rule is
\* applied to a record after each of its dependencies, and a transfer price
\* is computed after every rule was applied to the costs it reads; the
\* contributions of the first call are recorded in that order
C25_PhasesInOrder ==
  (ret.op = "calculate" /\ ~ret.out.threw) =>
    \E steps \in {StepsOfCall} :
      /\ \A i \in DOMAIN steps :
           steps[i].ruleId = "BASE" =>
             \A q \in ComponentsInSet(steps[i].productId) :
               /\ \E j \in 1..(i - 1) :
                    steps[j] = [steps[i] EXCEPT !.productId = q]
               /\ \A j \in DOMAIN steps :
                    steps[j] = [steps[i] EXCEPT !.productId = q] => j < i
      /\ \A i \in DOMAIN steps :
           steps[i].ruleId \in DefinedRuleIds =>
             \A d \in Range(getRule(ruleEngine, steps[i].ruleId).dependencies) :
               \E j \in 1..(i - 1) : steps[j] = [steps[i] EXCEPT !.ruleId = d]
      /\ \A i \in DOMAIN steps :
           steps[i].ruleId = "TRANSFER" =>
             \A j \in DOMAIN steps :
               (/\ steps[j].ruleId # "TRANSFER"
                /\ steps[j].productId = steps[i].productId
                /\ steps[j].entityId \in SourcesRead(steps[i].entityId))
                 => j < i
      /\ calls = 1 => ContributionsFollow(steps)

\* a calculate() of an assembly declared before its component, under a rule
\* declared before the rule it depends on, that priced a transfer
C25_Witness ==
  /\ ret.op = "calculate" /\ ~ret.out.threw
  /\ Len(billOfMaterials) = 2
  /\ \E k \in DOMAIN billOfMaterials[1].components :
       billOfMaterials[1].components[k].itemId = "B"
  /\ {"A", "B"} \subseteq {s.productId : s \in Range(StepsOfCall)}
  /\ Len(allocationRules) = 3
  /\ allocationRules[1].id = "P3"
  /\ \E a \in DOMAIN getContributions(calculator, "A", "D1") :
       getContributions(calculator, "A", "D1")[a].ruleId = "TRANSFER"
  /\ Len(getContributions(calculator, "A", "M1")) = 4

(***************************************************************************)
(* Properties of the hops of a transfer path                               *)
(***************************************************************************)
\* the running cost after the markup of a hop
AfterMarkup(cost, hop) ==
  IF hop.markupType = "cost-plus"
  THEN mul(cost, add(One, hop.markupValue))
  ELSE IF hop.markupType = "resale-minus"
  THEN mul(cost, add(One, div(hop.markupValue, Num(2, 1))))
  ELSE cost

\* the duty on a running cost that enters the entity to
DutyOn(cost, to) ==
  mul(cost, IF CountryOf(to) = "US" THEN Num(25, 1000)
            ELSE IF CountryOf(to) = "DE" THEN Num(4, 100)
            ELSE Num(3, 100))

\* the running cost after a hop: the markup, then the duty if the hop
\* crosses a border
AfterHop(cost, hop) ==
  IF CountryOf(hop.from) # CountryOf(hop.to)
  THEN add(AfterMarkup(cost, hop), DutyOn(AfterMarkup(cost, hop), hop.to))
  ELSE AfterMarkup(cost, hop)

\* C26: the transferPath stored for a distribution entity starts at the
\* total cost of the source, each of its entries is the entry before it
\* after the markup and the duty of the hop, and the stored totalCost is
\* its last entry
C26_PerHopTransferCost ==
  (ret.op = "calculate" /\ ~ret.out.threw) =>
    \A productId \in Range(getAllProducts(bomProcessor)),
       destEntityId \in EntityIdsOfType("distribution") :
      HasRecord(productId, destEntityId) =>
        \E record \in {getCost(calculator.costState, productId, destEntityId,
                               DefaultPeriod)} :
          \E i \in DOMAIN Candidates(productId, destEntityId, 1) :
            \E cand \in {Candidates(productId, destEntityId, 1)[i]} :
              /\ RecordsCandidate(productId, destEntityId, cand)
              /\ record.transferPath[1].cost
                   = StoredTotal(productId, record.sourceEntity)
              /\ \A h \in DOMAIN cand.hops :
                   record.transferPath[h + 1].cost
                     = AfterHop(record.transferPath[h].cost, cand.hops[h])
              /\ record.totalCost
                   = record.transferPath[Len(record.transferPath)].cost

\* a stored path of two hops: one inside a country under a markup type that
\* is neither cost-plus nor resale-minus, one into the US
C26_Witness ==
  /\ ret.op = "calculate" /\ ~ret.out.threw
  /\ HasRecord("A", "D1")
  /\ \E record \in {getCost(calculator.costState, "A", "D1", DefaultPeriod)} :
       /\ Len(record.transferPath) = 3
       /\ record.transferPath[2].entity = "W"
       /\ record.transferPath[2].cost = record.transferPath[1].cost
       /\ record.transferPath[3].cost # record.transferPath[2].cost
       /\ config.transferRoutes[1].markupType = "revenue-percent"

(***************************************************************************)
(* Properties of rule sets with a dependency that is no rule               *)
(***************************************************************************)
\* the methods that walk the rules
RuleWalkers ==
  {"getExecutionOrder", "getParallelGroups", "calculate",
   "recalculateIncremental", "resolveRoyaltyCycle"}

\* some rule of the engine names a dependency that is the id of no rule
HasUndefinedDependency ==
  /\ IsObject(ruleEngine)
  /\ \E id \in DOMAIN ruleEngine.rules :
       ~(Range(ruleEngine.rules[id].dependencies) \subseteq DOMAIN ruleEngine.rules)

\* C27: on a RuleEngine built from a rule set with a dependency that is no
\* rule, getExecutionOrder, getParallelGroups, calculate,
\* recalculateIncremental and resolveRoyaltyCycle return, and the waves of
\* getParallelGroups hold every defined rule
C27_UndefinedDependencyHandled ==
  (HasUndefinedDependency /\ ret.op \in RuleWalkers) =>
    /\ ~ret.out.threw
    /\ ret.op = "getParallelGroups"
         => DOMAIN ruleEngine.rules \subseteq Range(Flatten(ret.out.val))

\* what of C27 the code does: the constructor accepts the rule set and
\* getExecutionOrder returns, the undefined id among the ids it lists
C27_ExecutionOrderListsUndefinedId ==
  (HasUndefinedDependency /\ ret.op = "getExecutionOrder") =>
    /\ ~ret.out.threw
    /\ DOMAIN ruleEngine.rules \subseteq Range(ret.out.val)
    /\ ~(Range(ret.out.val) \subseteq DOMAIN ruleEngine.rules)

\* getParallelGroups throws whenever a dependency is no rule
C27_ParallelGroupsThrow ==
  (HasUndefinedDependency /\ ret.op = "getParallelGroups") => ret.out.threw

(***************************************************************************)
(* Properties of the explosion cache                                       *)
(***************************************************************************)
\* what explodeBOM(productId) returns on a BOMProcessor built from the same
\* bill of materials on which nothing was exploded yet
FreshExplosion(productId) ==
  explodeBOM(bomProcessor.bom,
             [explosionCache |-> EmptyMap, expansions |-> expansions],
             productId, 0, {}).out

RECURSIVE WithoutDepth(_)
\* an explosion without its depth fields
WithoutDepth(e) ==
  [productId |-> e.productId, isRawMaterial |-> e.isRawMaterial,
   components |->
     [i \in DOMAIN e.components |->
        [e.components[i] EXCEPT
           !.explosion = WithoutDepth(e.components[i].explosion)]]]

\* C28: explodeBOM(p) returns what it returns on a fresh BOMProcessor, in
\* every field, whatever was exploded before
C28_CacheTransparent ==
  ret.op = "explodeBOM" => ret.out = FreshExplosion(ret.productId)

\* what of C28 the code does: the same in every field but depth
C28_CacheTransparentButDepth ==
  ret.op = "explodeBOM" =>
    /\ ~ret.out.threw
    /\ WithoutDepth(ret.out.val)
         = WithoutDepth(FreshExplosion(ret.productId).val)

(***************************************************************************)
(* Properties of what-if analysis while keys are dirty                     *)
(***************************************************************************)
\* C29: the keys that are dirty when whatIf is called are dirty when it
\* returns, so that the recalculateIncremental after it recalculates them
C29_WhatIfPreservesDirtyKeys ==
  [][(ret'.op = "whatIf" /\ ~ret'.out.threw)
       => Range(calculator.costState.dirty)
            \subseteq Range(calculator'.costState.dirty)]_vars

\* what the code does for C29: no key is dirty when a whatIf with a
\* scenario returns, and the recalculateIncremental after it recalculates
\* nothing
C29_WhatIfClearsDirtyKeys ==
  [][/\ (ret'.op = "whatIf" /\ ~ret'.out.threw /\ Len(ret'.scenarios) > 0)
          => calculator'.costState.dirty = <<>>
     /\ (ret.op = "whatIf" /\ ~ret.out.threw /\ Len(ret.scenarios) > 0
           /\ ret'.op = "recalculateIncremental")
          => (~ret'.out.threw /\ ret'.out.val.recalculated = 0)]_vars

(***************************************************************************)
(* Properties of a converged royalty resolution                            *)
(***************************************************************************)
\* the calculator after one more pass of the loop of resolveRoyaltyCycle
\* for the product and entity of the call that returned
OneMorePass ==
  royaltyPass(calculator, bomProcessor, ruleEngine, ret.productId,
              ret.entityId, DefaultPeriod, DefaultCurrency)

\* the call returned a finalCost that is the stored total, and one more
\* pass ends and moves the total by the tolerance at most
AtFixedPoint ==
  /\ ret.out.val.finalCost
       = totalCostOrZero(calculator, ret.productId, ret.entityId, DefaultPeriod)
  /\ \E c1 \in {OneMorePass} :
       /\ c1.exc = NoExc
       /\ le(absNum(sub(totalCostOrZero(c1, ret.productId, ret.entityId,
                                        DefaultPeriod),
                        ret.out.val.finalCost)),
             ret.tolerance)

\* C30: a resolveRoyaltyCycle that returns converged = true returns the
\* stored total as finalCost, and one more pass (the base cost, then the
\* royalty rules) changes that total by the tolerance at most, whether or
\* not a cost record existed before the call; stated for the rule sets
\* whose dependencies are all rules
C30_ConvergedIsFixedPoint ==
  (/\ ret.op = "resolveRoyaltyCycle" /\ ~ret.out.threw /\ ret.out.val.converged
   /\ DependenciesDefined)
    => AtFixedPoint

\* what of C30 the code does: the same when the product has a cost record
\* in the entity after the call
C30_ConvergedWithRecordIsFixedPoint ==
  (/\ ret.op = "resolveRoyaltyCycle" /\ ~ret.out.threw /\ ret.out.val.converged
   /\ DependenciesDefined
   /\ HasRecord(ret.productId, ret.entityId))
    => AtFixedPoint

(***************************************************************************)
(* Properties of data gaps                                                 *)
(***************************************************************************)
\* the raw materials among the products, which calculateBaseCost prices
\* from the period costs
RawProducts ==
  {p \in Range(getAllProducts(bomProcessor)) :
     Len(getProduct(bomProcessor, p).components) = 0}

\* the raw materials without a period cost in a manufacturing entity, as
\* pairs (product, entity)
PeriodCostGaps ==
  {x \in RawProducts \X EntityIdsOfType("manufacturing") :
     getItemCost(calculator, x[1], x[2], DefaultPeriod) = Undefined}

\* the raw materials priced in a currency for which no rate leads to the
\* target currency
RateGaps ==
  {x \in (RawProducts \X EntityIdsOfType("manufacturing")) \ PeriodCostGaps :
     convert(calculator.exchangeRates,
             getItemCost(calculator, x[1], x[2], DefaultPeriod).unit,
             getItemCost(calculator, x[1], x[2], DefaultPeriod).currency,
             DefaultCurrency, DefaultPeriod).threw}

\* C21: a calculate() over a raw material whose period cost is missing, or
\* whose currency has no exchange rate, returns; the material costs zero in
\* the result and results.warnings holds a warning
C21_DataGapsNonFatal ==
  (ret.op = "calculate" /\ PeriodCostGaps \cup RateGaps # {}) =>
    /\ ~ret.out.threw
    /\ \A x \in PeriodCostGaps \cup RateGaps :
         ret.out.val.costs[x[1]][x[2]].breakdown.directMaterial = Zero
    /\ Len(ret.out.val.warnings) > 0

\* what of C21 the code does for a missing period cost: the call returns,
\* the material costs zero, and no warning is returned
C21_MissingPeriodCostCountsAsZero ==
  (ret.op = "calculate" /\ RateGaps = {}) =>
    /\ ~ret.out.threw
    /\ \A x \in PeriodCostGaps :
         /\ ret.out.val.costs[x[1]][x[2]].breakdown.directMaterial = Zero
         /\ ret.out.val.costs[x[1]][x[2]].totalCost = Zero
    /\ ret.out.val.warnings = <<>>

\* what the code does for a missing exchange rate: calculate() throws
C21_MissingRateThrows ==
  (ret.op = "calculate" /\ RateGaps # {}) => ret.out.threw

====
